---- MODULE Spec2Model ----
(***************************************************************************)
(* Verification model of the z17-randomizer core: Progress (capability     *)
(* set), Logic (tiered access predicates), Layout (placement record) and   *)
(* the assumed-fill engine that produces a Layout.                         *)
(***************************************************************************)
EXTENDS Integers, Sequences, FiniteSets, TLC

VARIABLES
    logic,      \* SpecLogic: the Logic value under evaluation
    progress,   \* SpecLogic / SpecReach: the Progress value being grown
    evalA,      \* SpecLogic: the most recent can_access call (arg, result)
    layout,     \* SpecLayout / SpecFill: the Layout
    lastSet,    \* SpecLayout: history, per location the item of its latest set
    lastOp,     \* SpecLayout: history, the latest set call (location, item, entry replaced)
    got,        \* SpecLayout: the Layout.get call made since (location, result)
    settings,   \* SpecFill: the Settings handed to filler_new
    check_map,  \* SpecFill: check -> placed token (<<>> while empty)
    pool,       \* SpecFill: tokens not yet placed
    pc,         \* SpecFill: position of the fill
    step,       \* SpecFill: ghost, the latest placement step
    outcome,    \* SpecFill: what filler_new handed to its caller
    arg,        \* SpecItems / SpecSubregion: the value(s) at hand
    ret,        \* SpecItems / SpecSubregion / SpecProgress: the latest call and its result
    ppc,        \* SpecPatch: position of regions::patch (run, done, err, panic)
    ppos,       \* SpecPatch: index of the next location of the table
    calls       \* SpecPatch: the Patch::apply calls made so far (patch, item)

vars == <<logic, progress, evalA, layout, lastSet, lastOp, got,
          settings, check_map, pool, pc, step, outcome, arg, ret, ppc, ppos, calls>>

logicVars  == <<logic, progress, evalA>>
layoutVars == <<layout, lastSet, lastOp, got>>
fillVars   == <<settings, check_map, pool, pc, step, outcome>>
callVars   == <<arg, ret>>
patchVars  == <<ppc, ppos, calls>>

(***************************************************************************)
(* Option<T>: None is the empty sequence, Some(x) the one-element one.     *)
(***************************************************************************)
None == <<>>

Some(x) == <<x>>

is_some(o) == Len(o) > 0

unwrap(o) == o[1]

(***************************************************************************)
(* Settings and the logic tiers.                                           *)
(***************************************************************************)
LogicMode == {"Normal", "Hard", "GlitchBasic", "GlitchAdvanced", "GlitchHell", "NoLogic"}

MkSettings(mode) == [logic |-> [mode |-> mode]]

(***************************************************************************)
(* Progress: a set of FillerItem tokens, plus the Settings it refers to.   *)
(***************************************************************************)
ProgressNew(s) == [items |-> {}, settings |-> s]

get_settings(p) == p.settings

\* (mutant) a token already held is dropped.
add_item_toggle(p, item) ==
    [p EXCEPT !.items = IF item \in @ THEN @ \ {item} ELSE @ \cup {item}]

add_item(p, item) == [p EXCEPT !.items = @ \cup {item}]

\* (mutant) the two sides are swapped.
difference_swapped(self, other) ==
    {item \in other.items : ~(item \in self.items)}

\* The new HashSet: every item of self.items that other.items does not contain.
difference(self, other) ==
    {item \in self.items : ~(item \in other.items)}

has(p, item) == item \in p.items

\* (mutant) exactly one of the two.
has_either_xor(p, item1, item2) == (item1 \in p.items) # (item2 \in p.items)

has_either(p, item1, item2) == item1 \in p.items \/ item2 \in p.items

has_both(p, item1, item2) == item1 \in p.items /\ item2 \in p.items

RECURSIVE has_any(_, _)
has_any(p, items) ==
    IF items = <<>> THEN FALSE
    ELSE IF has(p, Head(items)) THEN TRUE
    ELSE has_any(p, Tail(items))

U8 == 256

RECURSIVE count_from(_, _, _)
count_from(p, items, sum) ==
    IF items = <<>> THEN sum
    ELSE count_from(p, Tail(items),
                    IF has(p, Head(items)) THEN (sum + 1) % U8 ELSE sum)

count(p, items) == count_from(p, items, 0)

has_amount_le(p, amount, items) == count(p, items) <= amount

\* (mutant) strictly more than amount.
has_amount_gt(p, amount, items) == count(p, items) > amount

has_amount(p, amount, items) == count(p, items) >= amount

has_bow(p) == has_either(p, "Bow01", "Bow02")

has_bombs(p) == has_either(p, "Bombs01", "Bombs02")

has_ice_rod(p) == has_either(p, "IceRod01", "IceRod02")

can_merge(p) == has_either(p, "RaviosBracelet01", "RaviosBracelet02")

has_sword(p) == has_any(p, <<"Sword01", "Sword02", "Sword03", "Sword04">>)

can_attack(p) ==
    has_any(p, <<"Sword01", "Sword02", "Sword03", "Sword04",
                 "Bow01", "Bow02",
                 "Bombs01", "Bombs02",
                 "FireRod01", "FireRod02",
                 "IceRod01", "IceRod02",
                 "Hammer01", "Hammer02">>)

has_boomerang(p) == has_either(p, "Boomerang01", "Boomerang02")

has_hookshot(p) == has_either(p, "Hookshot01", "Hookshot02")

has_fire_rod(p) == has_either(p, "FireRod01", "FireRod02")

has_hammer(p) == has_either(p, "Hammer01", "Hammer02")

has_tornado_rod(p) == has_either(p, "TornadoRod01", "TornadoRod02")

\* (mutant) boomerang or hookshot count without an attack item.
can_defeat_yuga_no_attack(p) ==
    has_bow(p) \/ has_bombs(p) \/ has_boomerang(p) \/ has_hookshot(p)

can_defeat_yuga(p) ==
    has_bow(p) \/ has_bombs(p)
        \/ ((has_boomerang(p) \/ has_hookshot(p)) /\ can_attack(p))

\* (mutant) any attack item counts.
can_defeat_margomill_any_attack(p) == has_tornado_rod(p) /\ can_attack(p)

can_defeat_margomill(p) ==
    has_tornado_rod(p) /\ (\/ has_sword(p)
                           \/ has_bow(p)
                           \/ has_bombs(p)
                           \/ has_fire_rod(p)
                           \/ has_hammer(p))

has_lamp(p) == has_either(p, "Lamp01", "Lamp02")

has_fire_source(p) == has_any(p, <<"Lamp01", "Lamp02", "FireRod01", "FireRod02">>)

\* (mutant) the net tokens are consulted.
has_net_own_tokens(p) == has_either(p, "Net01", "Net02")

has_net(p) == has_either(p, "Lamp01", "Lamp02")

has_sand_rod(p) == has_either(p, "SandRod01", "SandRod02")

has_power_glove(p) == has_either(p, "Glove01", "Glove02")

\* (mutant) one glove is enough.
has_titans_mitt_either(p) == has_either(p, "Glove01", "Glove02")

has_titans_mitt(p) == has_both(p, "Glove01", "Glove02")

has_nice_bombs(p) == has_both(p, "Bombs01", "Bombs02")

has_master_sword(p) == has_amount(p, 2, <<"Sword01", "Sword02", "Sword03", "Sword04">>)

has_master_ore(p, amount) ==
    has_amount(p, amount, <<"OreRed", "OreGreen", "OreBlue", "OreYellow">>)

has_eastern_keys(p, amount) ==
    has_amount(p, amount, <<"EasternKeySmall01", "EasternKeySmall02">>)

has_gales_keys(p, amount) ==
    has_amount(p, amount, <<"GalesKeySmall01", "GalesKeySmall02", "GalesKeySmall03",
                            "GalesKeySmall04">>)

has_hera_keys(p, amount) ==
    has_amount(p, amount, <<"HeraKeySmall01", "HeraKeySmall02">>)

has_dark_keys(p, amount) ==
    has_amount(p, amount, <<"DarkKeySmall01", "DarkKeySmall02", "DarkKeySmall03",
                            "DarkKeySmall04">>)

has_swamp_keys(p, amount) ==
    has_amount(p, amount, <<"SwampKeySmall01", "SwampKeySmall02", "SwampKeySmall03",
                            "SwampKeySmall04">>)

has_skull_keys(p, amount) ==
    has_amount(p, amount, <<"SkullKeySmall01", "SkullKeySmall02", "SkullKeySmall03">>)

has_ice_keys(p, amount) ==
    has_amount(p, amount, <<"IceKeySmall01", "IceKeySmall02", "IceKeySmall03">>)

has_desert_keys(p, amount) ==
    has_amount(p, amount, <<"DesertKeySmall01", "DesertKeySmall02", "DesertKeySmall03",
                            "DesertKeySmall04", "DesertKeySmall05">>)

has_lorule_keys(p, amount) ==
    has_amount(p, amount, <<"LoruleCastleKeySmall01", "LoruleCastleKeySmall02",
                            "LoruleCastleKeySmall03", "LoruleCastleKeySmall04",
                            "LoruleCastleKeySmall05">>)

can_defeat_moldorm(p) == has_hammer(p)

can_defeat_gemasaur(p) == has_bombs(p) /\ has_fire_source(p)

can_defeat_arrgus(p) == has_hookshot(p) /\ can_attack(p)

\* (mutant) the ice rod is left out.
can_defeat_knucklemaster_no_ice(p) ==
    can_merge(p) /\ (\/ has_sword(p)
                     \/ has_bombs(p)
                     \/ has_fire_rod(p)
                     \/ has_hammer(p))

can_defeat_knucklemaster(p) ==
    can_merge(p) /\ (\/ has_sword(p)
                     \/ has_bombs(p)
                     \/ has_fire_rod(p)
                     \/ has_ice_rod(p)
                     \/ has_hammer(p))

can_defeat_stalblind(p) == can_merge(p) /\ can_attack(p)

can_defeat_dharkstare(p) == has_fire_rod(p)

can_defeat_zaganaga(p) == has_sand_rod(p) /\ can_attack(p)

has_turtle_keys(p, amount) ==
    has_amount(p, amount, <<"TurtleKeySmall01", "TurtleKeySmall02", "TurtleKeySmall03">>)

has_turtle_big_key(p) == has(p, "TurtleKeyBig")

can_defeat_grinexx(p) == has_ice_rod(p)

can_defeat_yuganon(p) == can_attack(p) /\ can_merge(p) /\ has(p, "BowOfLight")

(***************************************************************************)
(* Predicates: the fn(&Progress) -> bool values a Logic slot can hold,     *)
(* named, and applied by Apply.                                            *)
(***************************************************************************)
Apply(f, p) ==
    CASE f = "accessible"         -> TRUE
      [] f = "can_merge"          -> can_merge(p)
      [] f = "can_attack"         -> can_attack(p)
      [] f = "has_bombs"          -> has_bombs(p)
      [] f = "has_turtle_keys_1"  -> has_turtle_keys(p, 1)
      [] f = "has_turtle_keys_2"  -> has_turtle_keys(p, 2)
      [] f = "can_defeat_grinexx" -> can_defeat_grinexx(p)
      [] f = "can_defeat_yuganon" -> can_defeat_yuganon(p)

(***************************************************************************)
(* Logic: five optional predicates, one per tier.                          *)
(***************************************************************************)
LogicNew(normal, hard, glitch_basic, glitch_advanced, glitch_hell) ==
    [normal |-> normal, hard |-> hard, glitch_basic |-> glitch_basic,
     glitch_advanced |-> glitch_advanced, glitch_hell |-> glitch_hell]

accessible == Some("accessible")

LogicFree == LogicNew(accessible, accessible, accessible, accessible, accessible)

\* (mutant) Hard and above forget the tiers below them.
TierVecOwnTierOnly(self, mode) ==
    CASE mode = "Normal"         -> <<self.normal>>
      [] mode = "Hard"           -> <<self.hard>>
      [] mode = "GlitchBasic"    -> <<self.glitch_basic>>
      [] mode = "GlitchAdvanced" -> <<self.glitch_advanced>>
      [] mode = "GlitchHell"     -> <<self.glitch_hell>>

\* The vector the match of can_access builds for a tier other than NoLogic.
TierVec(self, mode) ==
    CASE mode = "Normal"         -> <<self.normal>>
      [] mode = "Hard"           -> <<self.normal, self.hard>>
      [] mode = "GlitchBasic"    -> <<self.normal, self.hard, self.glitch_basic>>
      [] mode = "GlitchAdvanced" -> <<self.normal, self.hard, self.glitch_basic,
                                      self.glitch_advanced>>
      [] mode = "GlitchHell"     -> <<self.normal, self.hard, self.glitch_basic,
                                      self.glitch_advanced, self.glitch_hell>>

\* (mutant) an absent slot lets the loop return true.
RECURSIVE AnyPassesAbsentOpen(_, _)
AnyPassesAbsentOpen(vec, p) ==
    IF vec = <<>> THEN FALSE
    ELSE IF ~is_some(Head(vec)) \/ Apply(unwrap(Head(vec)), p) THEN TRUE
    ELSE AnyPassesAbsentOpen(Tail(vec), p)

\* The for loop of can_access: true at the first present slot that passes.
RECURSIVE AnyPasses(_, _)
AnyPasses(vec, p) ==
    IF vec = <<>> THEN FALSE
    ELSE IF is_some(Head(vec)) /\ Apply(unwrap(Head(vec)), p) THEN TRUE
    ELSE AnyPasses(Tail(vec), p)

\* (mutant) the tier is that of default Settings, not of the Progress passed.
can_access_default_settings(self, p) ==
    AnyPasses(TierVec(self, MkSettings("Normal").logic.mode), p)

can_access(self, p) ==
    IF get_settings(p).logic.mode = "NoLogic" THEN TRUE
    ELSE AnyPasses(TierVec(self, get_settings(p).logic.mode), p)

(***************************************************************************)
(* Items and their normalised form.                                        *)
(***************************************************************************)
\* (mutant) nothing is collapsed.
normalize_identity(item) == item

\* (mutant) the top sword steps down one level only.
normalize_one_level(item) ==
    CASE item \in {"PackageSword", "ItemSwordLv1", "ItemSwordLv3"}
                                       -> "ItemSwordLv2"
      [] item = "ItemSwordLv4"         -> "ItemSwordLv3"
      [] item = "ItemRentalIceRod"     -> "ItemIceRod"
      [] item = "ItemRentalSandRod"    -> "ItemSandRod"
      [] item = "ItemRentalTornadeRod" -> "ItemTornadeRod"
      [] item = "ItemRentalBomb"       -> "ItemBomb"
      [] item = "ItemRentalFireRod"    -> "ItemFireRod"
      [] item = "ItemRentalHookShot"   -> "ItemHookShot"
      [] item = "ItemRentalBoomerang"  -> "ItemBoomerang"
      [] item = "ItemRentalHammer"     -> "ItemHammer"
      [] item = "ItemRentalBow"        -> "ItemBow"
      [] item = "PowerfulGlove"        -> "PowerGlove"
      [] item = "ClothesRed"           -> "ClothesBlue"
      [] item = "RingRental"           -> "RingHekiga"
      [] item = "ItemKandelaarLv2"     -> "ItemKandelaar"
      [] item = "ItemInsectNetLv2"     -> "ItemInsectNet"
      [] OTHER                         -> item

\* (mutant) the big key is collapsed onto the compass.
normalize_key_to_compass(item) ==
    CASE item \in {"PackageSword", "ItemSwordLv1", "ItemSwordLv3", "ItemSwordLv4"}
                                       -> "ItemSwordLv2"
      [] item = "ItemRentalIceRod"     -> "ItemIceRod"
      [] item = "ItemRentalSandRod"    -> "ItemSandRod"
      [] item = "ItemRentalTornadeRod" -> "ItemTornadeRod"
      [] item = "ItemRentalBomb"       -> "ItemBomb"
      [] item = "ItemRentalFireRod"    -> "ItemFireRod"
      [] item = "ItemRentalHookShot"   -> "ItemHookShot"
      [] item = "ItemRentalBoomerang"  -> "ItemBoomerang"
      [] item = "ItemRentalHammer"     -> "ItemHammer"
      [] item = "ItemRentalBow"        -> "ItemBow"
      [] item = "PowerfulGlove"        -> "PowerGlove"
      [] item = "ClothesRed"           -> "ClothesBlue"
      [] item = "RingRental"           -> "RingHekiga"
      [] item = "ItemKandelaarLv2"     -> "ItemKandelaar"
      [] item = "ItemInsectNetLv2"     -> "ItemInsectNet"
      [] item = "KeyBoss"              -> "Compass"
      [] OTHER                         -> item

normalize(item) ==
    CASE item \in {"PackageSword", "ItemSwordLv1", "ItemSwordLv3", "ItemSwordLv4"}
                                       -> "ItemSwordLv2"
      [] item = "ItemRentalIceRod"     -> "ItemIceRod"
      [] item = "ItemRentalSandRod"    -> "ItemSandRod"
      [] item = "ItemRentalTornadeRod" -> "ItemTornadeRod"
      [] item = "ItemRentalBomb"       -> "ItemBomb"
      [] item = "ItemRentalFireRod"    -> "ItemFireRod"
      [] item = "ItemRentalHookShot"   -> "ItemHookShot"
      [] item = "ItemRentalBoomerang"  -> "ItemBoomerang"
      [] item = "ItemRentalHammer"     -> "ItemHammer"
      [] item = "ItemRentalBow"        -> "ItemBow"
      [] item = "PowerfulGlove"        -> "PowerGlove"
      [] item = "ClothesRed"           -> "ClothesBlue"
      [] item = "RingRental"           -> "RingHekiga"
      [] item = "ItemKandelaarLv2"     -> "ItemKandelaar"
      [] item = "ItemInsectNetLv2"     -> "ItemInsectNet"
      [] OTHER                         -> item

(***************************************************************************)
(* Subregions and LocationInfo.                                            *)
(***************************************************************************)
Subregion(name, world, id) == [name |-> name, world |-> world, id |-> id]

LocationInfoNew(subregion, name) == [subregion |-> subregion, name |-> name]

FieldMain == Subregion("Hyrule Field", "Hyrule", "main")

LostWoods == Subregion("Lost Woods", "Hyrule", "woods")

TurtleRock == Subregion("Turtle Rock", "Dungeons", "rock")

TurtleBoss == Subregion("Turtle Rock", "Dungeons", "boss")

LoruleCastle == Subregion("Lorule Castle", "Dungeons", "lorule")

\* &'static str keys, with the bytes Ord compares.
Bytes(str) ==
    CASE str = "Alcove" ->
            <<65, 108, 99, 111, 118, 101>>
      [] str = "Pedestal" ->
            <<80, 101, 100, 101, 115, 116, 97, 108>>
      [] str = "Ravio (1)" ->
            <<82, 97, 118, 105, 111, 32, 40, 49, 41>>
      [] str = "Ravio (2)" ->
            <<82, 97, 118, 105, 111, 32, 40, 50, 41>>
      [] str = "(1F) Center" ->
            <<40, 49, 70, 41, 32, 67, 101, 110, 116, 101, 114>>
      [] str = "(B1) Big Chest (Top)" ->
            <<40, 66, 49, 41, 32, 66, 105, 103, 32, 67, 104, 101, 115, 116, 32, 40, 84, 111, 112, 41>>
      [] str = "Grinexx" ->
            <<71, 114, 105, 110, 101, 120, 120>>
      [] str = "Turtle Rock Prize" ->
            <<84, 117, 114, 116, 108, 101, 32, 82, 111, 99, 107, 32, 80, 114, 105, 122, 101>>
      [] str = "Zelda" ->
            <<90, 101, 108, 100, 97>>
      [] str = "(1F) Grate Chest" ->
            <<40, 49, 70, 41, 32, 71, 114, 97, 116, 101, 32, 67, 104, 101, 115, 116>>
      [] str = "(1F) Portal Room (Northwest)" ->
            <<40, 49, 70, 41, 32, 80, 111, 114, 116, 97, 108, 32, 82, 111, 111, 109, 32, 40, 78, 111, 114, 116, 104, 119, 101, 115, 116, 41>>
      [] str = "(1F) Northeast Ledge" ->
            <<40, 49, 70, 41, 32, 78, 111, 114, 116, 104, 101, 97, 115, 116, 32, 76, 101, 100, 103, 101>>
      [] str = "(1F) Southeast Chest" ->
            <<40, 49, 70, 41, 32, 83, 111, 117, 116, 104, 101, 97, 115, 116, 32, 67, 104, 101, 115, 116>>
      [] str = "(1F) Defeat Flamolas" ->
            <<40, 49, 70, 41, 32, 68, 101, 102, 101, 97, 116, 32, 70, 108, 97, 109, 111, 108, 97, 115>>
      [] str = "(B1) Northeast Room" ->
            <<40, 66, 49, 41, 32, 78, 111, 114, 116, 104, 101, 97, 115, 116, 32, 82, 111, 111, 109>>
      [] str = "(B1) Grate Chest (Small)" ->
            <<40, 66, 49, 41, 32, 71, 114, 97, 116, 101, 32, 67, 104, 101, 115, 116, 32, 40, 83, 109, 97, 108, 108, 41>>
      [] str = "(B1) Big Chest (Center)" ->
            <<40, 66, 49, 41, 32, 66, 105, 103, 32, 67, 104, 101, 115, 116, 32, 40, 67, 101, 110, 116, 101, 114, 41>>
      [] str = "(B1) Platform" ->
            <<40, 66, 49, 41, 32, 80, 108, 97, 116, 102, 111, 114, 109>>
      [] str = "Chest" ->
            <<67, 104, 101, 115, 116>>
      [] str = "Ravio (3)" ->
            <<82, 97, 118, 105, 111, 32, 40, 51, 41>>
      [] str = "Ravio (4)" ->
            <<82, 97, 118, 105, 111, 32, 40, 52, 41>>
      [] str = "Ravio (5)" ->
            <<82, 97, 118, 105, 111, 32, 40, 53, 41>>
      [] str = "Ravio (6)" ->
            <<82, 97, 118, 105, 111, 32, 40, 54, 41>>
      [] str = "Ravio (7)" ->
            <<82, 97, 118, 105, 111, 32, 40, 55, 41>>
      [] str = "Ravio (8)" ->
            <<82, 97, 118, 105, 111, 32, 40, 56, 41>>
      [] str = "Ravio (9)" ->
            <<82, 97, 118, 105, 111, 32, 40, 57, 41>>
      [] str = "[TR] (1F) Center" ->
            <<91, 84, 82, 93, 32, 40, 49, 70, 41, 32, 67, 101, 110, 116, 101, 114>>
      [] str = "[TR] (1F) Grate Chest" ->
            <<91, 84, 82, 93, 32, 40, 49, 70, 41, 32, 71, 114, 97, 116, 101, 32, 67, 104, 101, 115, 116>>
      [] str = "[TR] (1F) Portal Room (Northwest)" ->
            <<91, 84, 82, 93, 32, 40, 49, 70, 41, 32, 80, 111, 114, 116, 97, 108, 32, 82, 111, 111, 109, 32, 40, 78, 111, 114, 116, 104, 119, 101, 115, 116, 41>>
      [] str = "[TR] (1F) Northeast Ledge" ->
            <<91, 84, 82, 93, 32, 40, 49, 70, 41, 32, 78, 111, 114, 116, 104, 101, 97, 115, 116, 32, 76, 101, 100, 103, 101>>
      [] str = "[TR] (1F) Southeast Chest" ->
            <<91, 84, 82, 93, 32, 40, 49, 70, 41, 32, 83, 111, 117, 116, 104, 101, 97, 115, 116, 32, 67, 104, 101, 115, 116>>
      [] str = "[TR] (1F) Defeat Flamolas" ->
            <<91, 84, 82, 93, 32, 40, 49, 70, 41, 32, 68, 101, 102, 101, 97, 116, 32, 70, 108, 97, 109, 111, 108, 97, 115>>
      [] str = "Turtle Rock Left Balcony" ->
            <<84, 117, 114, 116, 108, 101, 32, 82, 111, 99, 107, 32, 76, 101, 102, 116, 32, 66, 97, 108, 99, 111, 110, 121>>
      [] str = "[TR] (B1) Northeast Room" ->
            <<91, 84, 82, 93, 32, 40, 66, 49, 41, 32, 78, 111, 114, 116, 104, 101, 97, 115, 116, 32, 82, 111, 111, 109>>
      [] str = "[TR] (B1) Grate Chest (Small)" ->
            <<91, 84, 82, 93, 32, 40, 66, 49, 41, 32, 71, 114, 97, 116, 101, 32, 67, 104, 101, 115, 116, 32, 40, 83, 109, 97, 108, 108, 41>>
      [] str = "[TR] (B1) Big Chest (Center)" ->
            <<91, 84, 82, 93, 32, 40, 66, 49, 41, 32, 66, 105, 103, 32, 67, 104, 101, 115, 116, 32, 40, 67, 101, 110, 116, 101, 114, 41>>
      [] str = "[TR] (B1) Platform" ->
            <<91, 84, 82, 93, 32, 40, 66, 49, 41, 32, 80, 108, 97, 116, 102, 111, 114, 109>>
      [] str = "[TR] (B1) Big Chest (Top)" ->
            <<91, 84, 82, 93, 32, 40, 66, 49, 41, 32, 66, 105, 103, 32, 67, 104, 101, 115, 116, 32, 40, 84, 111, 112, 41>>
      [] str = "[TR] (1F) Under Center" ->
            <<91, 84, 82, 93, 32, 40, 49, 70, 41, 32, 85, 110, 100, 101, 114, 32, 67, 101, 110, 116, 101, 114>>
      [] str = "[TR] (B1) Under Center" ->
            <<91, 84, 82, 93, 32, 40, 66, 49, 41, 32, 85, 110, 100, 101, 114, 32, 67, 101, 110, 116, 101, 114>>
      [] str = "[TR] Grinexx" ->
            <<91, 84, 82, 93, 32, 71, 114, 105, 110, 101, 120, 120>>
      [] str = "[LC] (1F) Ledge" ->
            <<91, 76, 67, 93, 32, 40, 49, 70, 41, 32, 76, 101, 100, 103, 101>>
      [] str = "[LC] (1F) Center" ->
            <<91, 76, 67, 93, 32, 40, 49, 70, 41, 32, 67, 101, 110, 116, 101, 114>>
      [] str = "[LC] (2F) Near Torches" ->
            <<91, 76, 67, 93, 32, 40, 50, 70, 41, 32, 78, 101, 97, 114, 32, 84, 111, 114, 99, 104, 101, 115>>
      [] str = "[LC] (2F) Hidden Path" ->
            <<91, 76, 67, 93, 32, 40, 50, 70, 41, 32, 72, 105, 100, 100, 101, 110, 32, 80, 97, 116, 104>>
      [] str = "[LC] (2F) Ledge" ->
            <<91, 76, 67, 93, 32, 40, 50, 70, 41, 32, 76, 101, 100, 103, 101>>
      [] str = "[LC] (4F) Center" ->
            <<91, 76, 67, 93, 32, 40, 52, 70, 41, 32, 67, 101, 110, 116, 101, 114>>
      [] str = "[LC] (4F) Hidden Path" ->
            <<91, 76, 67, 93, 32, 40, 52, 70, 41, 32, 72, 105, 100, 100, 101, 110, 32, 80, 97, 116, 104>>
      [] str = "[LC] (3F) Bomb Trial (Chest)" ->
            <<91, 76, 67, 93, 32, 40, 51, 70, 41, 32, 66, 111, 109, 98, 32, 84, 114, 105, 97, 108, 32, 40, 67, 104, 101, 115, 116, 41>>
      [] str = "[LC] (3F) Bomb Trial (Behind Rock)" ->
            <<91, 76, 67, 93, 32, 40, 51, 70, 41, 32, 66, 111, 109, 98, 32, 84, 114, 105, 97, 108, 32, 40, 66, 101, 104, 105, 110, 100, 32, 82, 111, 99, 107, 41>>
      [] str = "[LC] (3F) Ball Trial (Chest)" ->
            <<91, 76, 67, 93, 32, 40, 51, 70, 41, 32, 66, 97, 108, 108, 32, 84, 114, 105, 97, 108, 32, 40, 67, 104, 101, 115, 116, 41>>
      [] str = "[LC] (3F) Ball Trial (Puzzle)" ->
            <<91, 76, 67, 93, 32, 40, 51, 70, 41, 32, 66, 97, 108, 108, 32, 84, 114, 105, 97, 108, 32, 40, 80, 117, 122, 122, 108, 101, 41>>
      [] str = "[LC] (4F) Lamp Trial" ->
            <<91, 76, 67, 93, 32, 40, 52, 70, 41, 32, 76, 97, 109, 112, 32, 84, 114, 105, 97, 108>>
      [] str = "[LC] (4F) Hookshot Trial (Chest)" ->
            <<91, 76, 67, 93, 32, 40, 52, 70, 41, 32, 72, 111, 111, 107, 115, 104, 111, 116, 32, 84, 114, 105, 97, 108, 32, 40, 67, 104, 101, 115, 116, 41>>
      [] str = "[LC] (4F) Hookshot Trial (Eyes)" ->
            <<91, 76, 67, 93, 32, 40, 52, 70, 41, 32, 72, 111, 111, 107, 115, 104, 111, 116, 32, 84, 114, 105, 97, 108, 32, 40, 69, 121, 101, 115, 41>>
      [] str = "Delivery" ->
            <<68, 101, 108, 105, 118, 101, 114, 121>>
      [] str = "Dampe" ->
            <<68, 97, 109, 112, 101>>
      [] str = "Rosso Cave" ->
            <<82, 111, 115, 115, 111, 32, 67, 97, 118, 101>>
      [] str = "Sanctuary Pegs" ->
            <<83, 97, 110, 99, 116, 117, 97, 114, 121, 32, 80, 101, 103, 115>>
      [] str = "Sanctuary Treasure Dungeon" ->
            <<83, 97, 110, 99, 116, 117, 97, 114, 121, 32, 84, 114, 101, 97, 115, 117, 114, 101, 32, 68, 117, 110, 103, 101, 111, 110>>
      [] str = "Behind Blacksmith" ->
            <<66, 101, 104, 105, 110, 100, 32, 66, 108, 97, 99, 107, 115, 109, 105, 116, 104>>
      [] str = "Blacksmith Cave" ->
            <<66, 108, 97, 99, 107, 115, 109, 105, 116, 104, 32, 67, 97, 118, 101>>
      [] str = "Blacksmith" ->
            <<66, 108, 97, 99, 107, 115, 109, 105, 116, 104>>
      [] str = "Castle Rocks" ->
            <<67, 97, 115, 116, 108, 101, 32, 82, 111, 99, 107, 115>>
      [] str = "Rosso" ->
            <<82, 111, 115, 115, 111>>
      [] str = "Clean Rocks" ->
            <<67, 108, 101, 97, 110, 32, 82, 111, 99, 107, 115>>
      [] str = "Irene" ->
            <<73, 114, 101, 110, 101>>
      [] str = "Haunted Grove Tree Stump" ->
            <<72, 97, 117, 110, 116, 101, 100, 32, 71, 114, 111, 118, 101, 32, 84, 114, 101, 101, 32, 83, 116, 117, 109, 112>>
      [] str = "Cucco Dungeon" ->
            <<67, 117, 99, 99, 111, 32, 68, 117, 110, 103, 101, 111, 110>>
      [] str = "Rupee Rush (Hyrule)" ->
            <<82, 117, 112, 101, 101, 32, 82, 117, 115, 104, 32, 40, 72, 121, 114, 117, 108, 101, 41>>
      [] str = "Castle (Indoors)" ->
            <<67, 97, 115, 116, 108, 101, 32, 40, 73, 110, 100, 111, 111, 114, 115, 41>>
      [] str = "Castle Balcony" ->
            <<67, 97, 115, 116, 108, 101, 32, 66, 97, 108, 99, 111, 110, 121>>
      [] str = "Sanctuary Cave" ->
            <<83, 97, 110, 99, 116, 117, 97, 114, 121, 32, 67, 97, 118, 101>>
      [] str = "Master Sword Pedestal" ->
            <<77, 97, 115, 116, 101, 114, 32, 83, 119, 111, 114, 100, 32, 80, 101, 100, 101, 115, 116, 97, 108>>
      [] str = "Lost Woods Big Rock Chest" ->
            <<76, 111, 115, 116, 32, 87, 111, 111, 100, 115, 32, 66, 105, 103, 32, 82, 111, 99, 107, 32, 67, 104, 101, 115, 116>>

\* <[u8] as Ord>::cmp: lexicographic, a proper prefix first.
RECURSIVE bytes_less(_, _)
bytes_less(a, b) ==
    IF b = <<>> THEN FALSE
    ELSE IF a = <<>> THEN TRUE
    ELSE IF Head(a) < Head(b) THEN TRUE
    ELSE IF Head(a) > Head(b) THEN FALSE
    ELSE bytes_less(Tail(a), Tail(b))

str_less(x, y) == bytes_less(Bytes(x), Bytes(y))

(***************************************************************************)
(* BTreeMap<&str, Item>: the entries in key order.                         *)
(***************************************************************************)
RECURSIVE btree_get(_, _)
btree_get(map, k) ==
    IF map = <<>> THEN None
    ELSE IF Head(map).key = k THEN Some(Head(map).value)
    ELSE btree_get(Tail(map), k)

\* (mutant) an occupied key keeps its old value.
RECURSIVE btree_insert_keep_old(_, _, _)
btree_insert_keep_old(map, k, v) ==
    IF map = <<>> THEN <<[key |-> k, value |-> v]>>
    ELSE IF Head(map).key = k THEN map
    ELSE IF str_less(k, Head(map).key) THEN <<[key |-> k, value |-> v]>> \o map
    ELSE <<Head(map)>> \o btree_insert_keep_old(Tail(map), k, v)

\* (mutant) a new key goes last, as in a map kept in insertion order.
btree_insert_append(map, k, v) ==
    IF btree_get(map, k) # None
    THEN [i \in 1..Len(map) |-> IF map[i].key = k THEN [key |-> k, value |-> v] ELSE map[i]]
    ELSE Append(map, [key |-> k, value |-> v])

\* (mutant) replacing an occupied key drops the entries after it.
RECURSIVE btree_insert_drop_tail(_, _, _)
btree_insert_drop_tail(map, k, v) ==
    IF map = <<>> THEN <<[key |-> k, value |-> v]>>
    ELSE IF Head(map).key = k THEN <<[key |-> k, value |-> v]>>
    ELSE IF str_less(k, Head(map).key) THEN <<[key |-> k, value |-> v]>> \o map
    ELSE <<Head(map)>> \o btree_insert_drop_tail(Tail(map), k, v)

RECURSIVE btree_insert(_, _, _)
btree_insert(map, k, v) ==
    IF map = <<>> THEN <<[key |-> k, value |-> v]>>
    ELSE IF Head(map).key = k THEN <<[key |-> k, value |-> v]>> \o Tail(map)
    ELSE IF str_less(k, Head(map).key) THEN <<[key |-> k, value |-> v]>> \o map
    ELSE <<Head(map)>> \o btree_insert(Tail(map), k, v)

(***************************************************************************)
(* World = LinkedHashMap<&str, BTreeMap>: the entries in insertion order.  *)
(***************************************************************************)
RECURSIVE lhm_get(_, _)
lhm_get(map, k) ==
    IF map = <<>> THEN None
    ELSE IF Head(map).key = k THEN Some(Head(map).value)
    ELSE lhm_get(Tail(map), k)

\* (mutant) an occupied key moves to the back, as a refreshing lookup does.
lhm_entry_refresh(map, k) ==
    IF lhm_get(map, k) # None
    THEN SelectSeq(map, LAMBDA e : e.key # k) \o SelectSeq(map, LAMBDA e : e.key = k)
    ELSE Append(map, [key |-> k, value |-> <<>>])

\* (mutant) insert(k, Default::default()): an occupied key is emptied.
lhm_insert_default(map, k) ==
    IF lhm_get(map, k) # None
    THEN [i \in 1..Len(map) |-> IF map[i].key = k THEN [key |-> k, value |-> <<>>] ELSE map[i]]
    ELSE Append(map, [key |-> k, value |-> <<>>])

\* entry(k).or_insert_with(Default::default): a vacant key is appended.
lhm_entry_or_default(map, k) ==
    IF lhm_get(map, k) # None THEN map
    ELSE Append(map, [key |-> k, value |-> <<>>])

\* Writes through the &mut the entry gives.
lhm_update(map, k, v) ==
    [i \in 1..Len(map) |-> IF map[i].key = k THEN [key |-> k, value |-> v] ELSE map[i]]

(***************************************************************************)
(* Layout.                                                                 *)
(***************************************************************************)
LayoutDefault == [hyrule |-> <<>>, lorule |-> <<>>, dungeons |-> <<>>]

world(self, id) ==
    CASE id = "Hyrule"   -> self.hyrule
      [] id = "Lorule"   -> self.lorule
      [] id = "Dungeons" -> self.dungeons

\* The Layout after writing w through world_mut(id).
world_mut(self, id, w) ==
    CASE id = "Hyrule"   -> [self EXCEPT !.hyrule = w]
      [] id = "Lorule"   -> [self EXCEPT !.lorule = w]
      [] id = "Dungeons" -> [self EXCEPT !.dungeons = w]

\* The World after get_node_mut(node) made sure the region has an entry.
get_node_mut(self, node) == lhm_entry_or_default(world(self, node.world), node.name)

\* (mutant) the region is looked up under the node id.
get_by_id(self, location) ==
    LET node   == location.subregion
        region == lhm_get(world(self, node.world), node.id)
    IN  IF region = None THEN None ELSE btree_get(region[1], location.name)

get(self, location) ==
    LET node   == location.subregion
        region == lhm_get(world(self, node.world), node.name)
    IN  IF region = None THEN None ELSE btree_get(region[1], location.name)

\* (mutant) the item is stored as given.
set_raw(self, location, item) ==
    LET node == location.subregion
        w    == get_node_mut(self, node)
        r    == lhm_get(w, node.name)[1]
    IN  world_mut(self, node.world,
                  lhm_update(w, node.name, btree_insert(r, location.name, item)))

set(self, location, item) ==
    LET node == location.subregion
        w    == get_node_mut(self, node)
        r    == lhm_get(w, node.name)[1]
    IN  world_mut(self, node.world,
                  lhm_update(w, node.name, btree_insert(r, location.name, normalize(item))))

(***************************************************************************)
(* World graph: Subregion -> LocationNode (Checks and Paths), in the       *)
(* declaration order of the location table.                                *)
(***************************************************************************)
CheckNew(name, lgc, quest, location_info) ==
    [name |-> name, logic |-> lgc, quest |-> quest, location_info |-> location_info]

PathNew(destination, lgc) == [destination |-> destination, logic |-> lgc]

LocationNodeNew(checks, paths) == [checks |-> checks, paths |-> paths]

NormalOnly(f) == LogicNew(Some(f), None, None, None, None)

check_free(node, name) ==
    CheckNew(name, LogicFree, None, Some(LocationInfoNew(node, name)))

check_at(node, name, lgc) ==
    CheckNew(name, lgc, None, Some(LocationInfoNew(node, name)))

check_quest(node, name, quest) ==
    CheckNew(name, LogicFree, Some(quest), Some(LocationInfoNew(node, name)))

StartSubregion == FieldMain

NodeOrder == <<FieldMain, LostWoods, TurtleRock, TurtleBoss, LoruleCastle>>

WorldGraph(node) ==
    CASE node = FieldMain ->
            LocationNodeNew(
                <<check_free(FieldMain, "Ravio (1)"),
                  check_free(FieldMain, "Ravio (2)")>>,
                <<PathNew(LostWoods, LogicFree),
                  PathNew(TurtleRock, NormalOnly("can_merge")),
                  PathNew(LoruleCastle, NormalOnly("can_merge"))>>)
      [] node = LostWoods ->
            LocationNodeNew(
                <<check_at(LostWoods, "Alcove",
                           LogicNew(Some("can_merge"), None, Some("has_bombs"), None, None))>>,
                <<>>)
      [] node = TurtleRock ->
            LocationNodeNew(
                <<check_free(TurtleRock, "(1F) Center"),
                  check_at(TurtleRock, "(B1) Big Chest (Top)",
                           NormalOnly("has_turtle_keys_1"))>>,
                <<PathNew(TurtleBoss, NormalOnly("has_turtle_keys_2"))>>)
      [] node = TurtleBoss ->
            LocationNodeNew(
                <<check_free(TurtleBoss, "Grinexx"),
                  check_quest(TurtleBoss, "Turtle Rock Prize", "SageImpa")>>,
                <<>>)
      [] node = LoruleCastle ->
            LocationNodeNew(
                <<check_at(LoruleCastle, "Zelda", NormalOnly("can_defeat_yuganon"))>>,
                <<>>)

\* Every Check of the table with its node, in declaration order.
RECURSIVE ChecksOf(_)
ChecksOf(nodes) ==
    IF nodes = <<>> THEN <<>>
    ELSE [i \in 1..Len(WorldGraph(Head(nodes)).checks) |->
             [node |-> Head(nodes), check |-> WorldGraph(Head(nodes)).checks[i]]]
         \o ChecksOf(Tail(nodes))

AllChecks == ChecksOf(NodeOrder)

CheckIds == 1..Len(AllChecks)

\* The targets, not yet visited, of the open Paths of one node.
RECURSIVE open_targets(_, _, _)
open_targets(paths, visited, p) ==
    IF paths = <<>> THEN <<>>
    ELSE IF Head(paths).destination \notin visited /\ can_access(Head(paths).logic, p)
         THEN <<Head(paths).destination>>
              \o open_targets(Tail(paths), visited \cup {Head(paths).destination}, p)
         ELSE open_targets(Tail(paths), visited, p)

\* Breadth-first traversal from the start Subregion.
RECURSIVE bfs(_, _, _)
bfs(queue, visited, p) ==
    IF queue = <<>> THEN visited
    ELSE LET new == open_targets(WorldGraph(Head(queue)).paths, visited, p)
         IN  bfs(Tail(queue) \o new, visited \cup {new[i] : i \in 1..Len(new)}, p)

reachable_nodes(p) == bfs(<<StartSubregion>>, {StartSubregion}, p)

reachable_checks(p) ==
    {i \in CheckIds : /\ AllChecks[i].node \in reachable_nodes(p)
                      /\ can_access(AllChecks[i].check.logic, p)}

\* Sphere expansion: gather the items of reachable Checks until a pass adds nothing.
RECURSIVE collect(_, _)
collect(p, placed) ==
    LET gained == {placed[i][1] : i \in {j \in reachable_checks(p) : placed[j] # None}}
        q      == [p EXCEPT !.items = @ \cup gained]
    IN  IF q = p THEN p ELSE collect(q, placed)

(***************************************************************************)
(* SpecLogic: one Logic value, a Progress that grows by add_item or is     *)
(* replaced by a fresh one for other Settings, and calls of can_access.    *)
(***************************************************************************)
SlotValues == {None, Some("can_merge"), Some("has_bombs")}

LogicSet ==
    {LogicNew(a, b, c, d, e) : a \in SlotValues, b \in SlotValues, c \in SlotValues,
                               d \in SlotValues, e \in SlotValues} \cup {LogicFree}

LogicTokens == {"RaviosBracelet01", "Bombs01"}

IdleLogic == LogicFree

IdleProgress == ProgressNew(MkSettings("Normal"))

IdleLayout == LayoutDefault

LogicIdle ==
    /\ logic = IdleLogic
    /\ progress = IdleProgress
    /\ evalA = None

LayoutIdle ==
    /\ layout = IdleLayout
    /\ lastSet = <<>>
    /\ lastOp = None
    /\ got = None

FillIdle ==
    /\ settings = MkSettings("Normal")
    /\ check_map = <<>>
    /\ pool = <<>>
    /\ pc = "idle"
    /\ step = None
    /\ outcome = None

CallIdle ==
    /\ arg = None
    /\ ret = None

PatchIdle ==
    /\ ppc = "idle"
    /\ ppos = 1
    /\ calls = <<>>

LogicInit ==
    /\ logic \in LogicSet
    /\ \E mode \in LogicMode : progress = ProgressNew(MkSettings(mode))
    /\ evalA = None
    /\ LayoutIdle
    /\ FillIdle
    /\ CallIdle
    /\ PatchIdle

\* progress.add_item(t)
LAddItem ==
    \E t \in LogicTokens :
        /\ progress' = add_item(progress, t)
        /\ UNCHANGED <<patchVars, callVars, logic, evalA, layoutVars, fillVars>>

\* progress = Progress::new(settings) for some Settings
LNewProgress ==
    \E mode \in LogicMode :
        /\ progress' = ProgressNew(MkSettings(mode))
        /\ UNCHANGED <<patchVars, callVars, logic, evalA, layoutVars, fillVars>>

\* logic.can_access(&progress)
LCanAccess ==
    /\ evalA' = Some([arg |-> progress, result |-> can_access(logic, progress)])
    /\ UNCHANGED <<patchVars, callVars, logic, progress, layoutVars, fillVars>>

LogicNext == LAddItem \/ LNewProgress \/ LCanAccess

SpecLogic == LogicInit /\ [][LogicNext]_vars

(***************************************************************************)
(* Vocabulary of the claims about Logic.                                   *)
(***************************************************************************)
Tiers == <<"Normal", "Hard", "GlitchBasic", "GlitchAdvanced", "GlitchHell", "NoLogic">>

TierRank(mode) == CHOOSE i \in 1..Len(Tiers) : Tiers[i] = mode

SlotAt(self, i) ==
    CASE i = 1 -> self.normal
      [] i = 2 -> self.hard
      [] i = 3 -> self.glitch_basic
      [] i = 4 -> self.glitch_advanced
      [] i = 5 -> self.glitch_hell

WithMode(p, mode) == [p EXCEPT !.settings = MkSettings(mode)]

\* Some slot at a tier <= mode is present and passes on p.
OpenAt(self, p, mode) ==
    \E i \in 1..5 : /\ i <= TierRank(mode)
                    /\ SlotAt(self, i) # None
                    /\ Apply(SlotAt(self, i)[1], p)

\* C5: under a tier T other than NoLogic, can_access is true iff some slot at
\* a tier <= T is present and passes; an absent slot grants nothing
\* (normal = None is closed under Normal, and under Hard the result is the
\* hard predicate's); under NoLogic it is true for every Logic and Progress.
C5_CanAccessRule ==
    /\ \A mode \in LogicMode \ {"NoLogic"} :
          can_access(logic, WithMode(progress, mode)) = OpenAt(logic, progress, mode)
    /\ can_access(logic, WithMode(progress, "NoLogic"))
    /\ logic.normal = None =>
          /\ ~can_access(logic, WithMode(progress, "Normal"))
          /\ logic.hard # None =>
                can_access(logic, WithMode(progress, "Hard")) = Apply(logic.hard[1], progress)

\* A call under Hard of a Logic with no Normal slot returned the hard slot's true.
C5_Witness ==
    /\ evalA # None
    /\ logic.normal = None
    /\ logic.hard = Some("has_bombs")
    /\ evalA[1].arg.settings.logic.mode = "Hard"
    /\ evalA[1].result
    /\ ~can_access(logic, WithMode(evalA[1].arg, "Normal"))

\* C6: a Logic open on a Progress under one tier is open on it under every
\* higher tier of Normal < Hard < GlitchBasic < GlitchAdvanced < GlitchHell < NoLogic.
C6_TierMonotone ==
    \A m1 \in LogicMode, m2 \in LogicMode :
        (TierRank(m1) <= TierRank(m2) /\ can_access(logic, WithMode(progress, m1)))
            => can_access(logic, WithMode(progress, m2))

\* A call that found the Logic closed, on a Progress whose tier was then raised
\* to one under which the Logic is open.
C6_Witness ==
    /\ evalA # None
    /\ ~evalA[1].result
    /\ evalA[1].arg.items = progress.items
    /\ TierRank(evalA[1].arg.settings.logic.mode) < TierRank(progress.settings.logic.mode)
    /\ progress.settings.logic.mode # "NoLogic"
    /\ can_access(logic, progress)
LayoutLocations ==
    {LocationInfoNew(FieldMain, "Ravio (1)"),
     LocationInfoNew(LostWoods, "Pedestal"),
     LocationInfoNew(LostWoods, "Alcove"),
     LocationInfoNew(TurtleRock, "(1F) Center"),
     LocationInfoNew(TurtleBoss, "Grinexx")}

LayoutItems == {"ItemSwordLv4", "ItemRentalBow"}

LayoutInit ==
    /\ layout = LayoutDefault
    /\ lastSet = [l \in LayoutLocations |-> None]
    /\ lastOp = None
    /\ got = None
    /\ LogicIdle
    /\ FillIdle
    /\ CallIdle
    /\ PatchIdle

\* layout.set(location, item)
LySet ==
    \E location \in LayoutLocations, item \in LayoutItems :
        /\ layout' = set(layout, location, item)
        /\ lastSet' = [lastSet EXCEPT ![location] = Some(item)]
        /\ lastOp' = Some([location |-> location, item |-> item,
                            replaced |-> get(layout, location)])
        /\ got' = None
        /\ UNCHANGED <<patchVars, callVars, logicVars, fillVars>>

\* layout.get(&location)
LyGet ==
    \E location \in LayoutLocations :
        /\ got' = Some([location |-> location, result |-> get(layout, location)])
        /\ UNCHANGED <<patchVars, callVars, layout, lastSet, lastOp, logicVars, fillVars>>

LayoutNext == LySet \/ LyGet

SpecLayout == LayoutInit /\ [][LayoutNext]_vars

\* The entries of a Layout: every (world, region, check, item) it holds, as a
\* sequence (one element per stored entry).
RegionEntries(w, e) == [i \in 1..Len(e.value) |->
                           [world |-> w, region |-> e.key, check |-> e.value[i].key,
                            item |-> e.value[i].value]]

RECURSIVE WorldEntries(_, _)
WorldEntries(w, map) ==
    IF map = <<>> THEN <<>>
    ELSE RegionEntries(w, Head(map)) \o WorldEntries(w, Tail(map))

LayoutEntries(self) ==
    WorldEntries("Hyrule", self.hyrule) \o WorldEntries("Lorule", self.lorule)
        \o WorldEntries("Dungeons", self.dungeons)

\* The entries a Layout holds for a location.
EntriesAt(self, location) ==
    {i \in 1..Len(LayoutEntries(self)) :
        /\ LayoutEntries(self)[i].world = location.subregion.world
        /\ LayoutEntries(self)[i].region = location.subregion.name
        /\ LayoutEntries(self)[i].check = location.name}

\* C9: set(loc, x) followed by get(loc) returns normalize(x); for x = ItemSwordLv4
\* it returns ItemSwordLv2.
C9_SetGetRoundTrip ==
    (got # None /\ lastOp # None /\ got[1].location = lastOp[1].location) =>
        /\ got[1].result = Some(normalize(lastOp[1].item))
        /\ lastOp[1].item = "ItemSwordLv4" => got[1].result = Some("ItemSwordLv2")

\* set(loc, ItemSwordLv4), then get(loc).
C9_Witness ==
    /\ got # None
    /\ lastOp # None
    /\ got[1].location = lastOp[1].location
    /\ lastOp[1].item = "ItemSwordLv4"

\* C10: after any sequence of sets each Check holds at most one item, the
\* normalised item of the latest set on it; an earlier item is gone.
C10_SetOverwrites ==
    \A l \in LayoutLocations :
        /\ Cardinality(EntriesAt(layout, l)) <= 1
        /\ lastSet[l] = None => get(layout, l) = None
        /\ lastSet[l] # None =>
              /\ Cardinality(EntriesAt(layout, l)) = 1
              /\ get(layout, l) = Some(normalize(lastSet[l][1]))
              /\ \A i \in EntriesAt(layout, l) :
                    LayoutEntries(layout)[i].item = normalize(lastSet[l][1])

\* A Check that held ItemBow is set to ItemSwordLv4, then read.
C10_Witness ==
    /\ got # None
    /\ lastOp # None
    /\ got[1].location = lastOp[1].location
    /\ lastOp[1].item = "ItemSwordLv4"
    /\ lastOp[1].replaced = Some("ItemBow")

(***************************************************************************)
(* Fill engine (assumed fill) and filler_new.                              *)
(***************************************************************************)
DungeonItems == <<"TurtleKeySmall01", "TurtleKeySmall02">>

ProgressionItems == {"Sword01", "RaviosBracelet01", "BowOfLight"}

JunkItems == {"RupeeGold", "HeartPiece"}

QuestItems == {"SageImpa"}

\* The dungeon a dungeon item is confined to (None: not a dungeon item).
dungeon_of(item) ==
    IF item \in {"TurtleKeySmall01", "TurtleKeySmall02"} THEN Some("Turtle Rock") ELSE None

in_dungeon(i, dungeon) ==
    AllChecks[i].node.world = "Dungeons" /\ AllChecks[i].node.name = dungeon

\* FillerItem -> Item
convert(item) ==
    CASE item \in {"TurtleKeySmall01", "TurtleKeySmall02"} -> "KeySmall"
      [] item = "Sword01"          -> "ItemSwordLv1"
      [] item = "RaviosBracelet01" -> "RingRental"
      [] item = "BowOfLight"       -> "ItemBowLight"
      [] item = "SageImpa"         -> "SageImpa"
      [] item = "RupeeGold"        -> "RupeeGold"
      [] item = "HeartPiece"       -> "HeartPiece"

SeqToSet(q) == {q[i] : i \in 1..Len(q)}

\* The progression and dungeon items not placed yet.
unplaced(pl) == SeqToSet(pl.dungeon) \cup pl.progression

\* (mutant) the item being placed is itself among the assumed items.
assumed_progress_with_item(item, pl, placed, s) ==
    collect([items |-> unplaced(pl), settings |-> s], placed)

\* The Progress a placement of item is judged under: every other unplaced
\* item assumed owned, plus what the placed items then let the player collect.
assumed_progress(item, pl, placed, s) ==
    collect([items |-> unplaced(pl) \ {item}, settings |-> s], placed)

\* The empty, non-quest Checks reachable under p that may take item.
candidates(item, p, placed) ==
    {i \in reachable_checks(p) :
        /\ placed[i] = None
        /\ AllChecks[i].check.quest = None
        /\ dungeon_of(item) # None => in_dungeon(i, dungeon_of(item)[1])}

FillInit ==
    /\ \E mode \in LogicMode : settings = MkSettings(mode)
    /\ check_map = [i \in CheckIds |-> AllChecks[i].check.quest]
    /\ pool = [dungeon |-> DungeonItems, progression |-> ProgressionItems, junk |-> JunkItems]
    /\ pc = "dungeon"
    /\ step = None
    /\ outcome = None
    /\ LayoutIdle
    /\ LogicIdle
    /\ CallIdle
    /\ PatchIdle

\* Step 2: the next dungeon item goes to a candidate Check of its dungeon.
FPlaceDungeon ==
    /\ pc = "dungeon"
    /\ LET item == Head(pool.dungeon)
           p    == assumed_progress(item, pool, check_map, settings)
       IN  \E i \in candidates(item, p, check_map) :
               /\ check_map' = [check_map EXCEPT ![i] = Some(item)]
               /\ pool' = [pool EXCEPT !.dungeon = Tail(@)]
               /\ pc' = IF Tail(pool.dungeon) = <<>> THEN "progression" ELSE "dungeon"
               /\ step' = Some([phase |-> "dungeon", item |-> item, check |-> i, assumed |-> p])
    /\ UNCHANGED <<patchVars, callVars, settings, outcome, layoutVars, logicVars>>

\* Step 3: the next progression item of the shuffled order goes to a candidate Check.
FPlaceProgression ==
    /\ pc = "progression"
    /\ \E item \in pool.progression :
          LET p == assumed_progress(item, pool, check_map, settings)
          IN  \E i \in candidates(item, p, check_map) :
                  /\ check_map' = [check_map EXCEPT ![i] = Some(item)]
                  /\ pool' = [pool EXCEPT !.progression = @ \ {item}]
                  /\ pc' = IF pool.progression = {item} THEN "junk" ELSE "progression"
                  /\ step' = Some([phase |-> "progression", item |-> item, check |-> i,
                                   assumed |-> p])
    /\ UNCHANGED <<patchVars, callVars, settings, outcome, layoutVars, logicVars>>

\* The item to place has no candidate Check: the fill fails.  fill_stuff returns a
\* Vec and filler_new a Spoiler, so the failure leaves filler_new by unwinding.
FNoValidPlacement ==
    /\ \/ /\ pc = "dungeon"
          /\ candidates(Head(pool.dungeon),
                        assumed_progress(Head(pool.dungeon), pool, check_map, settings),
                        check_map) = {}
       \/ /\ pc = "progression"
          /\ \E item \in pool.progression :
                candidates(item, assumed_progress(item, pool, check_map, settings),
                           check_map) = {}
    /\ pc' = "failed"
    /\ outcome' = Some([kind |-> "Unwind", layout |-> None])
    /\ UNCHANGED <<patchVars, callVars, settings, check_map, pool, step, layoutVars, logicVars>>

\* Step 4: junk fills every Check still empty.
FFillJunk ==
    /\ pc = "junk"
    /\ LET empty == {i \in CheckIds : check_map[i] = None}
       IN  \E f \in [empty -> pool.junk] :
               /\ \A i \in empty, j \in empty : f[i] = f[j] => i = j
               /\ check_map' = [i \in CheckIds |->
                                   IF i \in empty THEN Some(f[i]) ELSE check_map[i]]
               /\ pool' = [pool EXCEPT !.junk = @ \ {f[i] : i \in empty}]
    /\ pc' = "filled"
    /\ UNCHANGED <<patchVars, callVars, settings, step, outcome, layoutVars, logicVars>>

\* The Vec<(LocationInfo, Item)> fill_stuff returns, in table order.
filled_list(placed) ==
    [i \in CheckIds |-> <<AllChecks[i].check.location_info[1], convert(placed[i][1])>>]

\* for (location_info, item) in filled { layout.set(location_info, item); }
RECURSIVE set_all(_, _)
set_all(self, filled) ==
    IF filled = <<>> THEN self
    ELSE set_all(set(self, Head(filled)[1], Head(filled)[2]), Tail(filled))

\* filler_new, once fill_stuff has returned: build the Layout, return the Spoiler.
FFillerNew ==
    /\ pc = "filled"
    /\ layout' = set_all(LayoutDefault, filled_list(check_map))
    /\ outcome' = Some([kind |-> "Spoiler", layout |-> Some(layout')])
    /\ pc' = "done"
    /\ UNCHANGED <<patchVars, callVars, settings, check_map, pool, step, lastSet, lastOp, got, logicVars>>

FillNext == FPlaceDungeon \/ FPlaceProgression \/ FNoValidPlacement \/ FFillJunk \/ FFillerNew

SpecFill == FillInit /\ [][FillNext]_vars

(***************************************************************************)
(* SpecReach: a Progress that grows by add_item, under any tier.           *)
(***************************************************************************)
ReachTokens ==
    {"TurtleKeySmall01", "TurtleKeySmall02", "Sword01", "RaviosBracelet01",
     "RaviosBracelet02", "BowOfLight"}

ReachInit ==
    /\ \E mode \in LogicMode : progress = ProgressNew(MkSettings(mode))
    /\ logic = IdleLogic
    /\ evalA = None
    /\ LayoutIdle
    /\ FillIdle
    /\ CallIdle
    /\ PatchIdle

\* progress.add_item(t)
RAddItem ==
    \E t \in ReachTokens :
        /\ progress' = add_item(progress, t)
        /\ UNCHANGED <<patchVars, callVars, logic, evalA, layoutVars, fillVars>>

ReachNext == RAddItem

SpecReach == ReachInit /\ [][ReachNext]_vars

(***************************************************************************)
(* Vocabulary of the claims about the world graph and the fill: what the   *)
(* predicates, the tiers and reachability mean, stated over token sets.    *)
(***************************************************************************)
AttackTokens ==
    {"Sword01", "Sword02", "Sword03", "Sword04", "Bow01", "Bow02", "Bombs01", "Bombs02",
     "FireRod01", "FireRod02", "IceRod01", "IceRod02", "Hammer01", "Hammer02"}

BraceletTokens == {"RaviosBracelet01", "RaviosBracelet02"}

TurtleKeyTokens == {"TurtleKeySmall01", "TurtleKeySmall02", "TurtleKeySmall03"}

DefeatsYuganon(items) ==
    /\ items \cap AttackTokens # {}
    /\ items \cap BraceletTokens # {}
    /\ "BowOfLight" \in items

Holds(f, items) ==
    CASE f = "accessible"         -> TRUE
      [] f = "can_merge"          -> items \cap BraceletTokens # {}
      [] f = "can_attack"         -> items \cap AttackTokens # {}
      [] f = "has_bombs"          -> items \cap {"Bombs01", "Bombs02"} # {}
      [] f = "has_turtle_keys_1"  -> Cardinality(items \cap TurtleKeyTokens) >= 1
      [] f = "has_turtle_keys_2"  -> Cardinality(items \cap TurtleKeyTokens) >= 2
      [] f = "can_defeat_grinexx" -> items \cap {"IceRod01", "IceRod02"} # {}
      [] f = "can_defeat_yuganon" -> DefeatsYuganon(items)

\* A Logic is open: NoLogic, or a present slot at a tier <= mode holds.
IsOpen(lgc, items, mode) ==
    \/ mode = "NoLogic"
    \/ \E i \in 1..5 : /\ i <= TierRank(mode)
                       /\ SlotAt(lgc, i) # None
                       /\ Holds(SlotAt(lgc, i)[1], items)

\* The Subregions joined to the start by open Paths.
RECURSIVE NodesFrom(_, _, _)
NodesFrom(S, items, mode) ==
    LET T == S \cup {d \in SeqToSet(NodeOrder) :
                        \E n \in S : \E k \in 1..Len(WorldGraph(n).paths) :
                            /\ WorldGraph(n).paths[k].destination = d
                            /\ IsOpen(WorldGraph(n).paths[k].logic, items, mode)}
    IN  IF T = S THEN S ELSE NodesFrom(T, items, mode)

Reachable(items, mode) ==
    {i \in CheckIds : /\ AllChecks[i].node \in NodesFrom({StartSubregion}, items, mode)
                      /\ IsOpen(AllChecks[i].check.logic, items, mode)}

\* What a player starting with items can gather from the placed items.
RECURSIVE Playthrough(_, _, _)
Playthrough(items, placed, mode) ==
    LET more == items \cup {placed[i][1] : i \in {j \in Reachable(items, mode) : placed[j] # None}}
    IN  IF more = items THEN items ELSE Playthrough(more, placed, mode)

ZeldaCheck == CHOOSE i \in CheckIds : AllChecks[i].check.name = "Zelda"

\* C1: after a successful fill the closure from the empty Progress holds every
\* progression capability, and with it the Lorule Castle boss check is
\* reachable and can_defeat_yuganon (can_attack, can_merge, BowOfLight) holds.
C1_Beatable ==
    pc = "done" =>
        LET mode == settings.logic.mode
            P    == collect(ProgressNew(settings), check_map)
            T    == Playthrough({}, check_map, mode)
        IN  /\ P.items = T
            /\ SeqToSet(DungeonItems) \cup ProgressionItems \cup QuestItems \subseteq T
            /\ DefeatsYuganon(T)
            /\ can_defeat_yuganon(P)
            /\ ZeldaCheck \in Reachable(T, mode)
            /\ ZeldaCheck \in reachable_checks(P)

\* A fill under Normal that succeeded with a key behind the key door.
C1_Witness ==
    /\ pc = "done"
    /\ settings.logic.mode = "Normal"
    /\ \E i \in CheckIds : /\ AllChecks[i].check.name = "(B1) Big Chest (Top)"
                           /\ check_map[i] = Some("TurtleKeySmall01")

C4_NoValidPlacementReturned ==
    pc = "failed" =>
        /\ outcome # None
        /\ outcome[1].kind = "Err"
        /\ outcome[1].layout = None

\* C7: with the same Settings, fewer tokens never reach more: every Check
\* reachable, and every Check or Path open, on a subset of the tokens is so
\* on the tokens themselves.
C7_ReachMonotone ==
    \A S \in SUBSET progress.items :
        LET p0 == [progress EXCEPT !.items = S]
        IN  /\ reachable_checks(p0) \subseteq reachable_checks(progress)
            /\ \A i \in CheckIds :
                  can_access(AllChecks[i].check.logic, p0)
                      => can_access(AllChecks[i].check.logic, progress)
            /\ \A n \in SeqToSet(NodeOrder) : \A k \in 1..Len(WorldGraph(n).paths) :
                  can_access(WorldGraph(n).paths[k].logic, p0)
                      => can_access(WorldGraph(n).paths[k].logic, progress)

\* Adding the second key opened the boss door: strictly more is reachable.
C7_Witness ==
    /\ progress.settings.logic.mode = "Normal"
    /\ progress.items = {"RaviosBracelet01", "TurtleKeySmall01", "TurtleKeySmall02"}
    /\ reachable_checks([progress EXCEPT !.items = {"RaviosBracelet01", "TurtleKeySmall01"}])
          # reachable_checks(progress)

(***************************************************************************)
(* SpecItems: the Item classes and normalize, applied to every Item the    *)
(* classification names.                                                   *)
(***************************************************************************)
Items ==
    {"Empty", "KeySmall", "KeyBoss", "Compass", "HeartContainer", "HeartPiece",
     "RupeeR", "RupeeG", "RupeeB", "RupeeGold", "RupeeSilver", "RupeePurple",
     "ItemIceRod", "ItemRentalIceRod", "ItemIceRodLv2", "ItemSandRod",
     "ItemRentalSandRod", "ItemSandRodLv2", "ItemRentalSandRodFirst",
     "ItemTornadeRod", "ItemRentalTornadeRod", "ItemTornadeRodLv2", "ItemBomb",
     "ItemRentalBomb", "ItemBombLv2", "ItemFireRod", "ItemRentalFireRod",
     "ItemFireRodLv2", "ItemHookShot", "ItemRentalHookShot", "ItemHookShotLv2",
     "ItemBoomerang", "ItemRentalBoomerang", "ItemBoomerangLv2", "ItemHammer",
     "ItemRentalHammer", "ItemHammerLv2", "ItemBow", "ItemRentalBow", "ItemBowLv2",
     "ItemShield", "ItemRentalShield", "HyruleShield", "ItemBottle",
     "ItemPotShopRed", "ItemPotShopBlue", "ItemPotShopPurple", "ItemPotShopYellow",
     "Milk", "ItemStoneBeauty", "PendantPower", "PendantWisdom", "PendantCourage",
     "ZeldaAmulet", "ItemKandelaar", "ItemKandelaarLv2", "ItemSwordLv1",
     "ItemSwordLv2", "ItemSwordLv3", "ItemSwordLv4", "PackageSword", "ItemMizukaki",
     "RingRental", "RingHekiga", "ItemBell", "PowerGlove", "PowerfulGlove",
     "ItemInsectNet", "ItemInsectNetLv2", "Kinsta", "BadgeBee", "GoldenBee", "Bee",
     "Fairy", "GoldenBeeForSale", "HintGlasses", "EscapeFruit", "StopFruit",
     "LiverBlue", "LiverPurple", "LiverYellow", "ClothesBlue", "ClothesRed",
     "OreYellow", "OreGreen", "OreBlue", "OreRed", "GanbariPowerUp", "GanbariTubo",
     "Pouch", "DashBoots", "MessageBottle", "MilkMatured", "SpecialMove",
     "ItemBowLight", "TriforceCourage", "Heart", "SageGulley", "SageOren",
     "SageSeres", "SageOsfala", "SageImpa", "SageIrene", "SageRosso"}

is_dungeon(item) == item \in {"KeySmall", "KeyBoss", "Compass"}

is_progression(item) ==
    item \in
        {"KeySmall", "KeyBoss", "ItemIceRod", "ItemRentalIceRod", "ItemIceRodLv2",
         "ItemSandRod", "ItemRentalSandRod", "ItemSandRodLv2",
         "ItemRentalSandRodFirst", "ItemTornadeRod", "ItemRentalTornadeRod",
         "ItemTornadeRodLv2", "ItemBomb", "ItemRentalBomb", "ItemBombLv2",
         "ItemFireRod", "ItemRentalFireRod", "ItemFireRodLv2", "ItemHookShot",
         "ItemRentalHookShot", "ItemHookShotLv2", "ItemBoomerang",
         "ItemRentalBoomerang", "ItemBoomerangLv2", "ItemHammer",
         "ItemRentalHammer", "ItemHammerLv2", "ItemBow", "ItemRentalBow",
         "ItemBowLv2", "ItemShield", "ItemRentalShield", "HyruleShield",
         "ItemBottle", "ItemStoneBeauty", "PendantPower", "PendantWisdom",
         "PendantCourage", "ItemKandelaar", "ItemKandelaarLv2", "ItemSwordLv1",
         "ItemSwordLv2", "ItemSwordLv3", "ItemSwordLv4", "PackageSword",
         "ItemMizukaki", "RingRental", "RingHekiga", "ItemBell", "PowerGlove",
         "PowerfulGlove", "ItemInsectNet", "ItemInsectNetLv2", "GoldenBeeForSale",
         "EscapeFruit", "ClothesBlue", "ClothesRed", "OreYellow", "OreGreen",
         "OreBlue", "OreRed", "GanbariPowerUp", "DashBoots", "MessageBottle",
         "MilkMatured", "SpecialMove", "ItemBowLight", "SageGulley", "SageOren",
         "SageSeres", "SageOsfala", "SageImpa", "SageIrene", "SageRosso"}

\* item_to_str: the display string of an Item, None where the match reaches
\* its unreachable! arm (a panic).
item_to_str(item) ==
    CASE item = "KeySmall" -> Some("Small Key")
      [] item = "KeyBoss" -> Some("Big Key")
      [] item = "Compass" -> Some("Compass")
      [] item = "HeartContainer" -> Some("Heart Container")
      [] item = "RupeeR" -> Some("Red Rupee")
      [] item = "RupeeG" -> Some("Green Rupee")
      [] item = "RupeeB" -> Some("Blue Rupee")
      [] item = "HeartPiece" -> Some("Piece of Heart")
      [] item = "ItemIceRod" -> Some("Ice Rod")
      [] item = "ItemIceRodLv2" -> Some("Nice Ice Rod")
      [] item = "ItemSandRod" -> Some("Sand Rod")
      [] item = "ItemSandRodLv2" -> Some("Nice Sand Rod")
      [] item = "ItemTornadeRod" -> Some("Tornado Rod")
      [] item = "ItemTornadeRodLv2" -> Some("Nice Tornado Rod")
      [] item = "ItemBomb" -> Some("Bombs")
      [] item = "ItemBombLv2" -> Some("Nice Bombs")
      [] item = "ItemFireRod" -> Some("Fire Rod")
      [] item = "ItemFireRodLv2" -> Some("Nice Fire Rod")
      [] item = "ItemHookShot" -> Some("Hookshot")
      [] item = "ItemHookShotLv2" -> Some("Nice Hookshot")
      [] item = "ItemBoomerang" -> Some("Boomerang")
      [] item = "ItemBoomerangLv2" -> Some("Nice Boomerang")
      [] item = "ItemHammer" -> Some("Hammer")
      [] item = "ItemHammerLv2" -> Some("Nice Hammer")
      [] item = "ItemBow" -> Some("Bow")
      [] item = "ItemBowLv2" -> Some("Nice Bow")
      [] item = "ItemShield" -> Some("Shield")
      [] item = "ItemBottle" -> Some("Bottle")
      [] item = "ItemStoneBeauty" -> Some("Smooth Gem")
      [] item = "ItemKandelaar" -> Some("Lamp")
      [] item = "ItemKandelaarLv2" -> Some("Super Lamp")
      [] item = "ItemSwordLv1" -> Some("Progressive Sword")
      [] item = "ItemSwordLv2" -> Some("Progressive Sword")
      [] item = "ItemMizukaki" -> Some("Flippers")
      [] item = "RingHekiga" -> Some("Progressive Bracelet")
      [] item = "ItemBell" -> Some("Bell")
      [] item = "RupeeGold" -> Some("Gold Rupee")
      [] item = "RupeeSilver" -> Some("Silver Rupee")
      [] item = "PowerGlove" -> Some("Progressive Glove")
      [] item = "ItemInsectNet" -> Some("Net")
      [] item = "ItemInsectNetLv2" -> Some("Super Net")
      [] item = "Kinsta" -> Some("Maiamai")
      [] item = "BadgeBee" -> Some("Bee Badge")
      [] item = "HintGlasses" -> Some("Hint Glasses")
      [] item = "LiverBlue" -> Some("Monster Tail")
      [] item = "LiverPurple" -> Some("Monster Guts")
      [] item = "LiverYellow" -> Some("Monster Horn")
      [] item = "ClothesBlue" -> Some("Progressive Mail")
      [] item = "HyruleShield" -> Some("Hylian Shield")
      [] item = "OreYellow" -> Some("Master Ore")
      [] item = "OreGreen" -> Some("Master Ore")
      [] item = "OreBlue" -> Some("Master Ore")
      [] item = "GanbariPowerUp" -> Some("Stamina Scroll")
      [] item = "Pouch" -> Some("Pouch")
      [] item = "DashBoots" -> Some("Pegasus Boots")
      [] item = "OreRed" -> Some("Master Ore")
      [] item = "MessageBottle" -> Some("Message in a Bottle")
      [] item = "MilkMatured" -> Some("Premium Milk")
      [] item = "SpecialMove" -> Some("Great Spin")
      [] item = "GanbariTubo" -> Some("Stamina Scroll")
      [] item = "RupeePurple" -> Some("Purple Rupee")
      [] item = "ItemBowLight" -> Some("Bow of Light")
      [] item = "Heart" -> Some("Heart")
      [] item = "Empty" -> Some("Empty")
      [] item = "PendantPower" -> Some("Pendant of Power")
      [] item = "PendantWisdom" -> Some("Pendant of Wisdom")
      [] item = "PendantCourage" -> Some("Pendant of Courage")
      [] item = "SageGulley" -> Some("Sage Gulley")
      [] item = "SageOren" -> Some("Sage Oren")
      [] item = "SageSeres" -> Some("Sage Seres")
      [] item = "SageOsfala" -> Some("Sage Osfala")
      [] item = "SageImpa" -> Some("Sage Impa")
      [] item = "SageIrene" -> Some("Sage Irene")
      [] item = "SageRosso" -> Some("Sage Rosso")
      [] item = "TriforceCourage" -> Some("Triforce of Courage")
      [] item = "ItemPotShopRed" -> Some("Red Potion")
      [] item = "ItemPotShopBlue" -> Some("Blue Potion")
      [] item = "ItemPotShopPurple" -> Some("Purple Potion")
      [] item = "ItemPotShopYellow" -> Some("Yellow Potion")
      [] OTHER -> None

ItemsInit ==
    /\ \E x \in Items : arg = Some(x)
    /\ ret = None
    /\ LogicIdle
    /\ LayoutIdle
    /\ FillIdle
    /\ PatchIdle

\* arg = arg.normalize()
INormalize ==
    /\ arg' = Some(normalize(arg[1]))
    /\ ret' = Some([op |-> "normalize", of |-> arg[1], result |-> normalize(arg[1])])
    /\ UNCHANGED <<patchVars, logicVars, layoutVars, fillVars>>

\* arg.is_dungeon(), arg.is_progression()
IClassify ==
    /\ ret' = Some([op |-> "classify", of |-> arg[1],
                    is_dungeon |-> is_dungeon(arg[1]),
                    is_progression |-> is_progression(arg[1])])
    /\ UNCHANGED <<patchVars, arg, logicVars, layoutVars, fillVars>>

\* item_to_str(&arg), as serialize_world calls it on a stored Item
IToStr ==
    /\ ret' = Some([op |-> "item_to_str", of |-> arg[1], result |-> item_to_str(arg[1])])
    /\ UNCHANGED <<patchVars, arg, logicVars, layoutVars, fillVars>>

ItemsNext == INormalize \/ IClassify \/ IToStr

SpecItems == ItemsInit /\ [][ItemsNext]_vars

RentalItems ==
    {"ItemRentalIceRod", "ItemRentalSandRod", "ItemRentalSandRodFirst",
     "ItemRentalTornadeRod", "ItemRentalBomb", "ItemRentalFireRod", "ItemRentalHookShot",
     "ItemRentalBoomerang", "ItemRentalHammer", "ItemRentalBow", "ItemRentalShield"}

SwordItems == {"PackageSword", "ItemSwordLv1", "ItemSwordLv2", "ItemSwordLv3", "ItemSwordLv4"}

\* C11: normalising a normalised Item changes nothing:
\* normalize(normalize(x)) = normalize(x) for every Item x.
C11_NormalizeIdempotent ==
    (ret # None /\ ret[1].op = "normalize") =>
        /\ normalize(ret[1].result) = ret[1].result
        /\ normalize(normalize(ret[1].of)) = normalize(ret[1].of)
        /\ arg = Some(ret[1].result)

\* A sword that was collapsed, normalised a second time.
C11_Witness ==
    /\ ret # None
    /\ ret[1].op = "normalize"
    /\ ret[1].of = "ItemSwordLv2"
    /\ arg = Some("ItemSwordLv2")

\* C12: normalize maps every rental variant to a non-rental Item, every sword
\* variant to ItemSwordLv2 and ClothesRed to ClothesBlue.
C12_RentalsCollapse ==
    (ret # None /\ ret[1].op = "normalize") =>
        /\ ret[1].result \notin RentalItems
        /\ ret[1].of \in SwordItems => ret[1].result = "ItemSwordLv2"
        /\ ret[1].of = "ClothesRed" => ret[1].result = "ClothesBlue"

\* C13: no Item is both a dungeon and a progression Item, and the dungeon
\* Items are exactly KeySmall, KeyBoss and Compass.
C13_ClassesDisjoint ==
    (ret # None /\ ret[1].op = "classify") =>
        /\ ~(ret[1].is_dungeon /\ ret[1].is_progression)
        /\ ret[1].is_dungeon <=> ret[1].of \in {"KeySmall", "KeyBoss", "Compass"}

(***************************************************************************)
(* Enumeration order of a Layout, as serialize_world walks it.             *)
(***************************************************************************)
WorldIds == {"Hyrule", "Lorule", "Dungeons"}

\* for (k, v) in region: the region names of a world, in iteration order.
RegionOrder(self, w) == [i \in 1..Len(world(self, w)) |-> world(self, w)[i].key]

\* for (k, v) in self.0: the check names of a region, in iteration order.
CheckOrder(region) == [j \in 1..Len(region) |-> region[j].key]

\* a is before b in the lexicographic order of their bytes.
LexLess(a, b) ==
    \E k \in 1..(Len(a) + 1) :
        /\ \A i \in 1..(k - 1) : i <= Len(b) /\ a[i] = b[i]
        /\ k <= Len(b)
        /\ (k <= Len(a) => a[k] < b[k])

RegionsStable ==
    \A w \in WorldIds :
        LET old == RegionOrder(layout, w)
            new == RegionOrder(layout', w)
        IN  \/ new = old
            \/ /\ Len(new) = Len(old) + 1
               /\ SubSeq(new, 1, Len(old)) = old
               /\ \A i \in 1..Len(old) : old[i] # new[Len(new)]

ChecksSorted ==
    \A w \in WorldIds : \A i \in 1..Len(world(layout, w)) :
        LET names == CheckOrder(world(layout, w)[i].value)
        IN  \A j \in 1..(Len(names) - 1) : LexLess(Bytes(names[j]), Bytes(names[j + 1]))

\* C15: a set leaves the regions of every world in their order, a region new
\* to the world going last (so regions stay in order of first insertion), and
\* the checks of every region are enumerated in lexicographic order of name.
C15_LayoutOrdering == [][RegionsStable]_vars /\ []ChecksSorted

\* Lost Woods got its first item before Hyrule Field did, and Alcove is set
\* into it after Pedestal and after Hyrule Field came in.
C15_Witness ==
    /\ RegionOrder(layout, "Hyrule") = <<"Lost Woods", "Hyrule Field">>
    /\ lastOp # None
    /\ lastOp[1].location = LocationInfoNew(LostWoods, "Alcove")
    /\ lastOp[1].replaced = None
    /\ CheckOrder(lhm_get(layout.hyrule, "Lost Woods")[1]) = <<"Alcove", "Pedestal">>

(***************************************************************************)
(* SpecSubregion: == on two Subregion values.                              *)
(***************************************************************************)
\* (mutant) the node id is left out of the comparison.
subregion_eq_no_id(self, other) ==
    self.world = other.world /\ self.name = other.name

\* impl PartialEq for Subregion
subregion_eq(self, other) ==
    self.world = other.world /\ self.name = other.name /\ self.id = other.id

SubregionSet ==
    {Subregion(n, w, i) : n \in {"Hyrule Field", "Lost Woods", "Turtle Rock"},
                          w \in WorldIds,
                          i \in {"main", "woods", "rock", "boss"}}

SubregionInit ==
    /\ \E a \in SubregionSet, b \in SubregionSet : arg = Some(<<a, b>>)
    /\ ret = None
    /\ LogicIdle
    /\ LayoutIdle
    /\ FillIdle
    /\ PatchIdle

\* arg[1] == arg[2]
SEq ==
    /\ ret' = Some([op |-> "eq", result |-> subregion_eq(arg[1][1], arg[1][2])])
    /\ UNCHANGED <<patchVars, arg, logicVars, layoutVars, fillVars>>

SubregionNext == SEq

SpecSubregion == SubregionInit /\ [][SubregionNext]_vars

\* C16: two Subregions compare equal iff world, name and id are all equal;
\* a difference in any one of the three makes them unequal.
C16_SubregionEqStructural ==
    (ret # None /\ ret[1].op = "eq") =>
        LET a == arg[1][1]
            b == arg[1][2]
        IN  /\ ret[1].result <=> (a.world = b.world /\ a.name = b.name /\ a.id = b.id)
            /\ a.world # b.world => ~ret[1].result
            /\ a.name # b.name => ~ret[1].result
            /\ a.id # b.id => ~ret[1].result
            /\ a = b => ret[1].result

\* Turtle Rock's two nodes, rock and boss, differ in the id alone.
C16_Witness ==
    /\ arg = Some(<<TurtleRock, TurtleBoss>>)
    /\ ret # None
    /\ ret[1].op = "eq"
    /\ ~ret[1].result

(***************************************************************************)
(* SpecProgress: a Progress grown by add_item, compared by difference and  *)
(* asked the boss predicates.                                              *)
(***************************************************************************)
ProgressTokens ==
    {"Bow01", "Bow02", "Bombs01", "Boomerang01", "Hookshot01", "Sword01",
     "TornadoRod01", "TornadoRod02", "FireRod01", "Hammer01", "IceRod01"}

\* The other Progress values difference is called with, besides self.
OtherItems == {{}, {"Sword01"}, {"Bow01", "TornadoRod01"}}

ProgressInit ==
    /\ progress = ProgressNew(MkSettings("Normal"))
    /\ ret = None
    /\ arg = None
    /\ logic = IdleLogic
    /\ evalA = None
    /\ LayoutIdle
    /\ FillIdle
    /\ PatchIdle

\* progress.add_item(t)
PAddItem ==
    \E t \in ProgressTokens :
        /\ progress' = add_item(progress, t)
        /\ ret' = Some([op |-> "add_item", item |-> t, before |-> progress.items])
        /\ UNCHANGED <<patchVars, arg, logic, evalA, layoutVars, fillVars>>

\* progress.difference(&other), other being progress itself or another value
PDifference ==
    \E other \in {progress} \cup {[progress EXCEPT !.items = S] : S \in OtherItems} :
        /\ ret' = Some([op |-> "difference", other |-> other.items,
                        result |-> difference(progress, other)])
        /\ UNCHANGED <<patchVars, arg, progress, logic, evalA, layoutVars, fillVars>>

\* progress.can_defeat_yuga(), progress.can_defeat_margomill()
PEval ==
    /\ ret' = Some([op |-> "eval",
                    can_defeat_yuga |-> can_defeat_yuga(progress),
                    can_defeat_margomill |-> can_defeat_margomill(progress)])
    /\ UNCHANGED <<patchVars, arg, progress, logic, evalA, layoutVars, fillVars>>

ProgressNext == PAddItem \/ PDifference \/ PEval

SpecProgress == ProgressInit /\ [][ProgressNext]_vars

\* C17: add_item(t) makes the token set the old set with t added: nothing is
\* removed, a token already held changes nothing, and the order of two
\* insertions does not matter.
C17_AddItemIsUnion ==
    /\ (ret # None /\ ret[1].op = "add_item") =>
          /\ progress.items = ret[1].before \cup {ret[1].item}
          /\ ret[1].before \subseteq progress.items
          /\ ret[1].item \in ret[1].before => progress.items = ret[1].before
    /\ \A a \in ProgressTokens, b \in ProgressTokens :
          add_item(add_item(progress, a), b) = add_item(add_item(progress, b), a)

\* Sword01 added to a Progress that held it, next to another token.
C17_Witness ==
    /\ ret # None
    /\ ret[1].op = "add_item"
    /\ ret[1].item = "Sword01"
    /\ ret[1].before = {"Sword01", "Bow01"}

\* C18: difference(other) is the set of tokens in this Progress and not in
\* other; p.difference(p) is empty and p.difference(empty) is p's token set.
C18_DifferenceIsSetMinus ==
    (ret # None /\ ret[1].op = "difference") =>
        /\ ret[1].result = progress.items \ ret[1].other
        /\ ret[1].other = progress.items => ret[1].result = {}
        /\ ret[1].other = {} => ret[1].result = progress.items

\* {Sword01, Bow01, Bombs01} minus {Bow01, TornadoRod01}.
C18_Witness ==
    /\ ret # None
    /\ ret[1].op = "difference"
    /\ progress.items = {"Sword01", "Bow01", "Bombs01"}
    /\ ret[1].other = {"Bow01", "TornadoRod01"}
    /\ ret[1].result = {"Sword01", "Bombs01"}

BowTokens == {"Bow01", "Bow02"}

BombTokens == {"Bombs01", "Bombs02"}

RangedTokens == {"Boomerang01", "Boomerang02", "Hookshot01", "Hookshot02"}

TornadoRodTokens == {"TornadoRod01", "TornadoRod02"}

MargomillTokens ==
    {"Sword01", "Sword02", "Sword03", "Sword04", "Bow01", "Bow02", "Bombs01", "Bombs02",
     "FireRod01", "FireRod02", "Hammer01", "Hammer02"}

\* C19: can_defeat_yuga holds iff there is a bow, or bombs, or a boomerang or
\* hookshot together with an attack item; so without a bow, bombs or
\* hookshot plus attack suffice, and boomerang or hookshot alone do not.
C19_YugaRule ==
    (ret # None /\ ret[1].op = "eval") =>
        LET T == progress.items
        IN  /\ ret[1].can_defeat_yuga <=>
                  \/ T \cap BowTokens # {}
                  \/ T \cap BombTokens # {}
                  \/ T \cap RangedTokens # {} /\ T \cap AttackTokens # {}
            /\ (T \cap BowTokens = {} /\ T \cap BombTokens # {}) => ret[1].can_defeat_yuga
            /\ (T \cap BowTokens = {} /\ "Hookshot01" \in T /\ T \cap AttackTokens # {})
                  => ret[1].can_defeat_yuga
            /\ T \subseteq RangedTokens => ~ret[1].can_defeat_yuga

\* Hookshot and a sword, no bow and no bombs.
C19_Witness ==
    /\ ret # None
    /\ ret[1].op = "eval"
    /\ progress.items = {"Hookshot01", "Sword01"}
    /\ ret[1].can_defeat_yuga

\* C20: can_defeat_margomill holds iff there is a tornado rod and one of
\* sword, bow, bombs, fire rod, hammer; true for {TornadoRod01, Sword01},
\* false for {TornadoRod01} and for the rod with ice rod, boomerang or hookshot.
C20_MargomillRule ==
    (ret # None /\ ret[1].op = "eval") =>
        LET T == progress.items
        IN  /\ ret[1].can_defeat_margomill <=>
                  (T \cap TornadoRodTokens # {} /\ T \cap MargomillTokens # {})
            /\ T = {"TornadoRod01", "Sword01"} => ret[1].can_defeat_margomill
            /\ T = {"TornadoRod01"} => ~ret[1].can_defeat_margomill
            /\ T \subseteq TornadoRodTokens \cup RangedTokens \cup {"IceRod01", "IceRod02"}
                  => ~ret[1].can_defeat_margomill

\* The tornado rod with a sword.
C20_Witness ==
    /\ ret # None
    /\ ret[1].op = "eval"
    /\ progress.items = {"TornadoRod01", "Sword01"}
    /\ ret[1].can_defeat_margomill

(***************************************************************************)
(* The Location Table of the region declarations, with each location's     *)
(* patch descriptor, and regions::patch walking it.                        *)
(***************************************************************************)
\* patch!(Variant(n[unq])): Patch::Variant { course: COURSE, stage or scene: n - 1, unq }
Patch(variant, course, index, unq) ==
    [variant |-> variant, course |-> course, index |-> index, unq |-> unq]

\* dungeons::turtle, node rock
TurtleRockLocations ==
    <<[subregion |-> TurtleRock, key |-> "(1F) Center", item |-> "Compass",
      patch |-> Patch("Chest", "DungeonKame", 0, 115), condition |-> None],
      [subregion |-> TurtleRock, key |-> "(1F) Grate Chest", item |-> "RupeePurple",
      patch |-> Patch("Chest", "DungeonKame", 0, 58), condition |-> None],
      [subregion |-> TurtleRock, key |-> "(1F) Portal Room (Northwest)", item |-> "KeySmall",
      patch |-> Patch("Key", "DungeonKame", 0, 153), condition |-> None],
      [subregion |-> TurtleRock, key |-> "(1F) Northeast Ledge", item |-> "KeySmall",
      patch |-> Patch("Key", "DungeonKame", 0, 243), condition |-> None],
      [subregion |-> TurtleRock, key |-> "(1F) Southeast Chest", item |-> "RupeePurple",
      patch |-> Patch("Chest", "DungeonKame", 0, 173), condition |-> None],
      [subregion |-> TurtleRock, key |-> "(1F) Defeat Flamolas", item |-> "RupeeSilver",
      patch |-> Patch("Chest", "DungeonKame", 0, 220), condition |-> None],
      [subregion |-> TurtleRock, key |-> "(B1) Northeast Room", item |-> "KeySmall",
      patch |-> Patch("Key", "DungeonKame", 1, 53), condition |-> None],
      [subregion |-> TurtleRock, key |-> "(B1) Grate Chest (Small)", item |-> "RupeePurple",
      patch |-> Patch("Chest", "DungeonKame", 1, 5), condition |-> None],
      [subregion |-> TurtleRock, key |-> "(B1) Big Chest (Center)", item |-> "HyruleShield",
      patch |-> Patch("Chest", "DungeonKame", 1, 180), condition |-> None],
      [subregion |-> TurtleRock, key |-> "(B1) Platform", item |-> "RupeeSilver",
      patch |-> Patch("Chest", "DungeonKame", 1, 183), condition |-> None],
      [subregion |-> TurtleRock, key |-> "(B1) Big Chest (Top)", item |-> "KeyBoss",
      patch |-> Patch("Chest", "DungeonKame", 1, 29), condition |-> None]>>

\* dungeons::turtle, node boss
TurtleBossLocations ==
    <<[subregion |-> TurtleBoss, key |-> "Grinexx", item |-> "HeartContainer",
      patch |-> Patch("Heart", "DungeonKame", 2, 6), condition |-> None]>>

\* A location declared with the optional `where settings:` clause. The two
\* region files at hand declare none; the clause is put on a Hyrule Field
\* location, enabled by one flag of the Settings.
FieldLocations ==
    <<[subregion |-> FieldMain, key |-> "Ravio (1)", item |-> "RupeeGold",
       patch |-> Patch("Chest", "IndoorLight", 0, 48), condition |-> Some("flag")]>>

\* hyrule::lost, node woods
LostWoodsLocations ==
    <<[subregion |-> LostWoods, key |-> "Pedestal", item |-> "ItemSwordLv2",
      patch |-> Patch("Chest", "FieldLight", 33, 71), condition |-> None],
      [subregion |-> LostWoods, key |-> "Alcove", item |-> "HeartPiece",
      patch |-> Patch("Heart", "FieldLight", 0, 46), condition |-> None],
      [subregion |-> LostWoods, key |-> "Chest", item |-> "RupeeR",
      patch |-> Patch("Chest", "FieldLight", 0, 133), condition |-> None]>>

\* In the order regions::patch visits them: dungeons, then hyrule.
LocationTable ==
    TurtleRockLocations \o TurtleBossLocations \o FieldLocations \o LostWoodsLocations

\* (mutant) the where clause is not consulted.
settings_check_always(condition, s) == TRUE

\* settings_check!: true without a where clause, else the clause on the Settings.
settings_check(condition, s) ==
    IF condition = None THEN TRUE ELSE s[condition[1]]

\* (mutant) every location reads the key of the table's first location.
patch_item_by_first_key(self, l) ==
    get(self, LocationInfoNew(l.subregion, LocationTable[1].key))

\* layout.get(&LocationInfo::new(SUBREGION, $key))
patch_item(self, l) == get(self, LocationInfoNew(l.subregion, l.key))

(***************************************************************************)
(* SpecPatch: regions::patch on a Layout and Settings, location by         *)
(* location; Patch::apply may fail, and `?` then ends the walk.            *)
(***************************************************************************)
\* Layouts patched: location i holds the table item of location i + shift.
Shifts == {0, 1, 5}

\* Index of a location the Layout has no entry for (0: none is missing).
MissingAt == {0, 2, 16}

PatchSettings == {[logic |-> [mode |-> "Normal"], flag |-> b] : b \in BOOLEAN}

PatchLayout(shift, missing) ==
    LET N     == Len(LocationTable)
        pairs == [i \in 1..N |->
                    <<LocationInfoNew(LocationTable[i].subregion, LocationTable[i].key),
                      LocationTable[((i + shift - 1) % N) + 1].item>>]
    IN  set_all(LayoutDefault,
                SelectSeq(pairs, LAMBDA e :
                    missing = 0 \/ e[1] # pairs[missing][1]))

PatchInit ==
    /\ \E shift \in Shifts, missing \in MissingAt : layout = PatchLayout(shift, missing)
    /\ settings \in PatchSettings
    /\ ppc = "run"
    /\ ppos = 1
    /\ calls = <<>>
    /\ lastSet = [l \in LayoutLocations |-> None]
    /\ lastOp = None
    /\ got = None
    /\ check_map = <<>>
    /\ pool = <<>>
    /\ pc = "idle"
    /\ step = None
    /\ outcome = None
    /\ LogicIdle
    /\ CallIdle

PatchRest == <<layoutVars, settings, check_map, pool, pc, step, outcome, logicVars, callVars>>

\* if settings_check!(..)(settings) is false: the location is passed over.
PSkip ==
    /\ ppc = "run"
    /\ ppos <= Len(LocationTable)
    /\ ~settings_check(LocationTable[ppos].condition, settings)
    /\ ppos' = ppos + 1
    /\ UNCHANGED <<ppc, calls, PatchRest>>

\* layout.get(..) is None: unreachable!() panics.
PUnreachable ==
    /\ ppc = "run"
    /\ ppos <= Len(LocationTable)
    /\ settings_check(LocationTable[ppos].condition, settings)
    /\ patch_item(layout, LocationTable[ppos]) = None
    /\ ppc' = "panic"
    /\ UNCHANGED <<ppos, calls, PatchRest>>

\* patch!(..).apply(patcher, item, settings)? returned Ok.
PApplyOk ==
    /\ ppc = "run"
    /\ ppos <= Len(LocationTable)
    /\ settings_check(LocationTable[ppos].condition, settings)
    /\ patch_item(layout, LocationTable[ppos]) # None
    /\ calls' = Append(calls, [patch |-> LocationTable[ppos].patch,
                               item |-> unwrap(patch_item(layout, LocationTable[ppos]))])
    /\ ppos' = ppos + 1
    /\ UNCHANGED <<ppc, PatchRest>>

\* patch!(..).apply(patcher, item, settings)? returned Err: patch returns it.
PApplyErr ==
    /\ ppc = "run"
    /\ ppos <= Len(LocationTable)
    /\ settings_check(LocationTable[ppos].condition, settings)
    /\ patch_item(layout, LocationTable[ppos]) # None
    /\ calls' = Append(calls, [patch |-> LocationTable[ppos].patch,
                               item |-> unwrap(patch_item(layout, LocationTable[ppos]))])
    /\ ppc' = "err"
    /\ UNCHANGED <<ppos, PatchRest>>

\* Ok(()) after the last location.
PReturnOk ==
    /\ ppc = "run"
    /\ ppos > Len(LocationTable)
    /\ ppc' = "done"
    /\ UNCHANGED <<ppos, calls, PatchRest>>

PatchNext == PSkip \/ PUnreachable \/ PApplyOk \/ PApplyErr \/ PReturnOk

SpecPatch == PatchInit /\ [][PatchNext]_vars

\* The locations of the table whose settings condition holds, in table order.
EnabledLocations ==
    SelectSeq(LocationTable, LAMBDA l : l.condition = None \/ settings[l.condition[1]])

BossTokens ==
    {"Hammer01", "Hammer02", "Bombs01", "Lamp01", "FireRod01", "Hookshot01",
     "RaviosBracelet01", "Sword01", "IceRod01", "SandRod01", "Bow01", "BowOfLight"}

BossInit ==
    /\ progress = ProgressNew(MkSettings("Normal"))
    /\ ret = None
    /\ arg = None
    /\ logic = IdleLogic
    /\ evalA = None
    /\ LayoutIdle
    /\ FillIdle
    /\ PatchIdle

\* progress.add_item(t)
BAddItem ==
    \E t \in BossTokens :
        /\ progress' = add_item(progress, t)
        /\ ret' = None
        /\ UNCHANGED <<arg, logic, evalA, layoutVars, fillVars, patchVars>>

\* progress.can_defeat_moldorm(), .., progress.can_defeat_yuganon()
BEval ==
    /\ ret' = Some([op |-> "bosses",
                    moldorm       |-> can_defeat_moldorm(progress),
                    gemasaur      |-> can_defeat_gemasaur(progress),
                    arrgus        |-> can_defeat_arrgus(progress),
                    knucklemaster |-> can_defeat_knucklemaster(progress),
                    stalblind     |-> can_defeat_stalblind(progress),
                    dharkstare    |-> can_defeat_dharkstare(progress),
                    zaganaga      |-> can_defeat_zaganaga(progress),
                    grinexx       |-> can_defeat_grinexx(progress),
                    yuganon       |-> can_defeat_yuganon(progress)])
    /\ UNCHANGED <<arg, progress, logic, evalA, layoutVars, fillVars, patchVars>>

BossNext == BAddItem \/ BEval

SpecBoss == BossInit /\ [][BossNext]_vars

HammerTokens == {"Hammer01", "Hammer02"}

LampTokens == {"Lamp01", "Lamp02"}

FireRodTokens == {"FireRod01", "FireRod02"}

IceRodTokens == {"IceRod01", "IceRod02"}

SandRodTokens == {"SandRod01", "SandRod02"}

HookshotTokens == {"Hookshot01", "Hookshot02"}

SwordTokens == {"Sword01", "Sword02", "Sword03", "Sword04"}

\* C21: each remaining boss predicate is its stated rule: Moldorm hammer;
\* Gemesaur bombs and (lamp or fire rod); Arrghus hookshot and attack;
\* Knucklemaster merge and (sword, bombs, fire rod, ice rod or hammer);
\* Stalblind merge and attack; Dharkstare fire rod; Zaganaga sand rod and
\* attack; Grinexx ice rod; Yuganon attack, merge and BowOfLight.
C21_BossRules ==
    (ret # None /\ ret[1].op = "bosses") =>
        LET T      == progress.items
            Has(S) == T \cap S # {}
            attack == Has(AttackTokens)
            merge  == Has(BraceletTokens)
        IN  /\ ret[1].moldorm <=> Has(HammerTokens)
            /\ ret[1].gemasaur <=> (Has(BombTokens) /\ (Has(LampTokens) \/ Has(FireRodTokens)))
            /\ ret[1].arrgus <=> (Has(HookshotTokens) /\ attack)
            /\ ret[1].knucklemaster <=>
                  (merge /\ (\/ Has(SwordTokens) \/ Has(BombTokens) \/ Has(FireRodTokens)
                             \/ Has(IceRodTokens) \/ Has(HammerTokens)))
            /\ ret[1].stalblind <=> (merge /\ attack)
            /\ ret[1].dharkstare <=> Has(FireRodTokens)
            /\ ret[1].zaganaga <=> (Has(SandRodTokens) /\ attack)
            /\ ret[1].grinexx <=> Has(IceRodTokens)
            /\ ret[1].yuganon <=> (attack /\ merge /\ "BowOfLight" \in T)

\* The bracelet and the ice rod: Knucklemaster and Grinexx fall, Stalblind
\* too, the others stand.
C21_Witness ==
    /\ ret # None
    /\ ret[1].op = "bosses"
    /\ progress.items = {"RaviosBracelet01", "IceRod01"}
    /\ ret[1].knucklemaster
    /\ ret[1].grinexx
    /\ ~ret[1].yuganon
    /\ ~ret[1].gemasaur

(***************************************************************************)
(* SpecThreshold: the either / both / at-least-two queries of Progress.    *)
(***************************************************************************)
\* Net01 and Net02 stand for the net's tokens, named as the lamp's are.
ThresholdTokens ==
    {"RaviosBracelet01", "RaviosBracelet02", "Glove01", "Glove02",
     "Sword01", "Sword02", "Sword03", "Sword04", "Bombs01", "Bombs02",
     "Lamp01", "Lamp02", "Net01", "Net02"}

ThresholdInit ==
    /\ progress = ProgressNew(MkSettings("Normal"))
    /\ ret = None
    /\ arg = None
    /\ logic = IdleLogic
    /\ evalA = None
    /\ LayoutIdle
    /\ FillIdle
    /\ PatchIdle

\* progress.add_item(t)
TAddItem ==
    \E t \in ThresholdTokens :
        /\ progress' = add_item(progress, t)
        /\ ret' = None
        /\ UNCHANGED <<arg, logic, evalA, layoutVars, fillVars, patchVars>>

\* progress.can_merge(), .has_titans_mitt(), .has_master_sword(),
\* .has_nice_bombs(), .has_lamp(), .has_net()
TEval ==
    /\ ret' = Some([op |-> "thresholds",
                    can_merge        |-> can_merge(progress),
                    has_titans_mitt  |-> has_titans_mitt(progress),
                    has_master_sword |-> has_master_sword(progress),
                    has_nice_bombs   |-> has_nice_bombs(progress),
                    has_lamp         |-> has_lamp(progress),
                    has_net          |-> has_net(progress)])
    /\ UNCHANGED <<arg, progress, logic, evalA, layoutVars, fillVars, patchVars>>

ThresholdNext == TAddItem \/ TEval

SpecThreshold == ThresholdInit /\ [][ThresholdNext]_vars

GloveTokens == {"Glove01", "Glove02"}

NetTokens == {"Net01", "Net02"}

\* C22: can_merge iff at least one bracelet token; has_titans_mitt iff both
\* glove tokens; has_master_sword iff at least two of the four sword tokens;
\* has_nice_bombs iff both bomb tokens.
C22_ThresholdQueries ==
    (ret # None /\ ret[1].op = "thresholds") =>
        LET T == progress.items
        IN  /\ ret[1].can_merge <=> Cardinality(T \cap BraceletTokens) >= 1
            /\ ret[1].has_titans_mitt <=> GloveTokens \subseteq T
            /\ ret[1].has_master_sword <=> Cardinality(T \cap SwordTokens) >= 2
            /\ ret[1].has_nice_bombs <=> BombTokens \subseteq T

\* Two swords and one glove: the master sword, not the titan's mitt.
C22_Witness ==
    /\ ret # None
    /\ ret[1].op = "thresholds"
    /\ progress.items = {"Sword01", "Sword03", "Glove01"}
    /\ ret[1].has_master_sword
    /\ ~ret[1].has_titans_mitt

\* C24: has_net gives what has_lamp gives, true iff a lamp token is held;
\* the net's own tokens change nothing.
C24_NetIsLamp ==
    (ret # None /\ ret[1].op = "thresholds") =>
        /\ ret[1].has_net = ret[1].has_lamp
        /\ ret[1].has_net <=> progress.items \cap LampTokens # {}
        /\ has_net([progress EXCEPT !.items = @ \ NetTokens]) = ret[1].has_net
        /\ has_net([progress EXCEPT !.items = @ \cup NetTokens]) = ret[1].has_net

\* A lamp and no net: has_net is true; (the net alone gives false).
C24_Witness ==
    /\ ret # None
    /\ ret[1].op = "thresholds"
    /\ progress.items = {"Lamp01"}
    /\ ret[1].has_net
    /\ ~has_net([progress EXCEPT !.items = {"Net01"}])

(***************************************************************************)
(* SpecKeys: the counted queries, has_<dungeon>_keys(n) and                *)
(* has_master_ore(n), for one family of tokens at a time and any u8 n.     *)
(***************************************************************************)
KeyFamilies ==
    {"eastern", "gales", "hera", "dark", "swamp", "skull", "ice", "desert", "turtle",
     "lorule", "ore"}

\* self.has_<family>_keys(amount) / self.has_master_ore(amount)
has_keys(family, p, amount) ==
    CASE family = "eastern" -> has_eastern_keys(p, amount)
      [] family = "gales"   -> has_gales_keys(p, amount)
      [] family = "hera"    -> has_hera_keys(p, amount)
      [] family = "dark"    -> has_dark_keys(p, amount)
      [] family = "swamp"   -> has_swamp_keys(p, amount)
      [] family = "skull"   -> has_skull_keys(p, amount)
      [] family = "ice"     -> has_ice_keys(p, amount)
      [] family = "desert"  -> has_desert_keys(p, amount)
      [] family = "turtle"  -> has_turtle_keys(p, amount)
      [] family = "lorule"  -> has_lorule_keys(p, amount)
      [] family = "ore"     -> has_master_ore(p, amount)

\* The token slots of a family.
KeySlots(family) ==
    CASE family = "eastern" -> {"EasternKeySmall01", "EasternKeySmall02"}
      [] family = "gales"   -> {"GalesKeySmall01", "GalesKeySmall02", "GalesKeySmall03",
                                "GalesKeySmall04"}
      [] family = "hera"    -> {"HeraKeySmall01", "HeraKeySmall02"}
      [] family = "dark"    -> {"DarkKeySmall01", "DarkKeySmall02", "DarkKeySmall03",
                                "DarkKeySmall04"}
      [] family = "swamp"   -> {"SwampKeySmall01", "SwampKeySmall02", "SwampKeySmall03",
                                "SwampKeySmall04"}
      [] family = "skull"   -> {"SkullKeySmall01", "SkullKeySmall02", "SkullKeySmall03"}
      [] family = "ice"     -> {"IceKeySmall01", "IceKeySmall02", "IceKeySmall03"}
      [] family = "desert"  -> {"DesertKeySmall01", "DesertKeySmall02", "DesertKeySmall03",
                                "DesertKeySmall04", "DesertKeySmall05"}
      [] family = "turtle"  -> {"TurtleKeySmall01", "TurtleKeySmall02", "TurtleKeySmall03"}
      [] family = "lorule"  -> {"LoruleCastleKeySmall01", "LoruleCastleKeySmall02",
                                "LoruleCastleKeySmall03", "LoruleCastleKeySmall04",
                                "LoruleCastleKeySmall05"}
      [] family = "ore"     -> {"OreRed", "OreGreen", "OreBlue", "OreYellow"}

\* A key no counted query reads.
ForeignKey == "ThievesKeySmall"

Amounts == 0..(U8 - 1)

KeysInit ==
    /\ \E family \in KeyFamilies : arg = Some(family)
    /\ progress = ProgressNew(MkSettings("Normal"))
    /\ ret = None
    /\ logic = IdleLogic
    /\ evalA = None
    /\ LayoutIdle
    /\ FillIdle
    /\ PatchIdle

\* progress.add_item(t)
KAddItem ==
    \E t \in KeySlots(arg[1]) \cup {ForeignKey} :
        /\ progress' = add_item(progress, t)
        /\ ret' = None
        /\ UNCHANGED <<arg, logic, evalA, layoutVars, fillVars, patchVars>>

\* progress.has_<family>_keys(amount)
KEval ==
    \E amount \in Amounts :
        /\ ret' = Some([op |-> "keys", amount |-> amount,
                        result |-> has_keys(arg[1], progress, amount)])
        /\ UNCHANGED <<arg, progress, logic, evalA, layoutVars, fillVars, patchVars>>

KeysNext == KAddItem \/ KEval

SpecKeys == KeysInit /\ [][KeysNext]_vars

\* C23: a counted query with amount n is true iff at least n of the family's
\* distinct tokens are held: always for n = 0, never for n above the number
\* of slots; and the 8-bit count does not wrap.
C23_CountedQueries ==
    (ret # None /\ ret[1].op = "keys") =>
        LET held == Cardinality(progress.items \cap KeySlots(arg[1]))
            n    == ret[1].amount
        IN  /\ ret[1].result <=> held >= n
            /\ n = 0 => ret[1].result
            /\ n > Cardinality(KeySlots(arg[1])) => ~ret[1].result
            /\ held < U8

\* Three of the five desert keys and a foreign key, asked for three.
C23_Witness ==
    /\ arg = Some("desert")
    /\ ret # None
    /\ ret[1].op = "keys"
    /\ ret[1].amount = 3
    /\ progress.items = {"DesertKeySmall01", "DesertKeySmall03", "DesertKeySmall05", ForeignKey}
    /\ ret[1].result
    /\ ~has_keys("desert", progress, 4)

(***************************************************************************)
(* SpecAlias: set and get on LocationInfo values of which some agree on    *)
(* world, region name and check name and differ in the node id.            *)
(***************************************************************************)
AliasLocations ==
    {LocationInfoNew(TurtleRock, "Grinexx"),
     LocationInfoNew(TurtleBoss, "Grinexx"),
     LocationInfoNew(TurtleRock, "(1F) Center"),
     LocationInfoNew(TurtleBoss, "(1F) Center"),
     LocationInfoNew(LostWoods, "Alcove")}

AliasInit ==
    /\ layout = LayoutDefault
    /\ lastSet = [l \in LayoutLocations |-> None]
    /\ lastOp = None
    /\ got = None
    /\ LogicIdle
    /\ FillIdle
    /\ CallIdle
    /\ PatchIdle

\* layout.set(location, item)
ASet ==
    \E location \in AliasLocations, item \in LayoutItems :
        /\ layout' = set(layout, location, item)
        /\ lastOp' = Some([location |-> location, item |-> item,
                            replaced |-> get(layout, location)])
        /\ got' = None
        /\ UNCHANGED <<lastSet, callVars, patchVars, logicVars, fillVars>>

\* layout.get(&location)
AGet ==
    \E location \in AliasLocations :
        /\ got' = Some([location |-> location, result |-> get(layout, location)])
        /\ UNCHANGED <<layout, lastSet, lastOp, callVars, patchVars, logicVars, fillVars>>

AliasNext == ASet \/ AGet

SpecAlias == AliasInit /\ [][AliasNext]_vars

\* The key of a LocationInfo's slot.
SlotKey(l) == <<l.subregion.world, l.subregion.name, l.name>>

\* C25: set(l1, x) followed by get(l2) returns normalize(x) whenever l1 and l2
\* agree on world, region name and check name, equal Subregions or not.
C25_SlotKeyedByNames ==
    (got # None /\ lastOp # None /\ SlotKey(got[1].location) = SlotKey(lastOp[1].location)) =>
        got[1].result = Some(normalize(lastOp[1].item))

\* Set through Turtle Rock's rock node, read through its boss node.
C25_Witness ==
    /\ lastOp # None
    /\ got # None
    /\ lastOp[1].location = LocationInfoNew(TurtleRock, "Grinexx")
    /\ got[1].location = LocationInfoNew(TurtleBoss, "Grinexx")
    /\ ~subregion_eq(lastOp[1].location.subregion, got[1].location.subregion)
    /\ got[1].result = Some("ItemBow")

\* The slots of a step: set changes no slot but the one of its location, and
\* the number of filled slots does not decrease.
SetFrame ==
    /\ \A l \in LayoutLocations :
           get(layout', l) # get(layout, l) =>
               /\ lastOp' # None
               /\ SlotKey(lastOp'[1].location) = SlotKey(l)
    /\ Len(LayoutEntries(layout')) >= Len(LayoutEntries(layout))

\* A location that was never set returns None.
NeverSetIsNone == \A l \in LayoutLocations : lastSet[l] = None => get(layout, l) = None

\* C26: set(loc, x) changes the slot of loc and no other; a location never set
\* returns None; the number of filled slots never decreases.
C26_SetFrame == [][SetFrame]_vars /\ []NeverSetIsNone

\* Alcove was just set again in a region that also holds Pedestal's item, and
\* Turtle Rock was never set.
C26_Witness ==
    /\ lastOp # None
    /\ lastOp[1].location = LocationInfoNew(LostWoods, "Alcove")
    /\ lastOp[1].replaced # None
    /\ get(layout, LocationInfoNew(LostWoods, "Pedestal")) = Some("ItemSwordLv2")
    /\ lastSet[LocationInfoNew(TurtleRock, "(1F) Center")] = None
    /\ get(layout, LocationInfoNew(TurtleRock, "(1F) Center")) = None
    /\ Len(LayoutEntries(layout)) = 2

\* C27: normalize keeps an Item's class: normalize(x) is a progression Item
\* exactly when x is, and a dungeon Item exactly when x is.
C27_NormalizeKeepsClass ==
    (ret # None /\ ret[1].op = "normalize") =>
        /\ is_progression(ret[1].result) = is_progression(ret[1].of)
        /\ is_dungeon(ret[1].result) = is_dungeon(ret[1].of)

\* A collapsed progression Item and an untouched dungeon Item.
C27_Witness ==
    /\ ret # None
    /\ ret[1].op = "normalize"
    /\ \/ /\ ret[1].of = "PackageSword"
          /\ ret[1].result = "ItemSwordLv2"
          /\ is_progression(ret[1].result)
       \/ /\ ret[1].of = "KeyBoss"
          /\ ret[1].result = "KeyBoss"
          /\ is_dungeon(ret[1].result)

\* The Items Layout.set stores for a progression or dungeon Item.
StoredItems == {normalize(x) : x \in {y \in Items : is_progression(y) \/ is_dungeon(y)}}

\* C28: for every progression or dungeon Item x, item_to_str(normalize(x))
\* returns a display string and does not reach the unreachable! arm.
C28_StoredItemsHaveNames ==
    (ret # None /\ ret[1].op = "item_to_str" /\ ret[1].of \in StoredItems) =>
        ret[1].result # None

(***************************************************************************)
(* SpecPlando: plando() builds its Layout with one layout.set per line and *)
(* hands it to Spoiler::patch, which walks the region tables.  Of the      *)
(* plando the sets under hyrule::field::main, dungeons::turtle::rock,      *)
(* hyrule::lost::woods and dungeons::castle::lorule are kept, in source    *)
(* order.                                                                  *)
(***************************************************************************)
PlandoSets ==
    <<[location |-> LocationInfoNew(FieldMain, "Ravio (1)"), item |-> "RupeeGold"],
      [location |-> LocationInfoNew(FieldMain, "Ravio (2)"), item |-> "PendantCourage"],
      [location |-> LocationInfoNew(FieldMain, "Ravio (3)"), item |-> "PendantPower"],
      [location |-> LocationInfoNew(FieldMain, "Ravio (4)"), item |-> "DashBoots"],
      [location |-> LocationInfoNew(FieldMain, "Ravio (5)"), item |-> "PendantWisdom"],
      [location |-> LocationInfoNew(FieldMain, "Ravio (6)"), item |-> "HintGlasses"],
      [location |-> LocationInfoNew(FieldMain, "Ravio (7)"), item |-> "RingHekiga"],
      [location |-> LocationInfoNew(FieldMain, "Ravio (8)"), item |-> "RingHekiga"],
      [location |-> LocationInfoNew(FieldMain, "Ravio (9)"), item |-> "ItemMizukaki"],
      [location |-> LocationInfoNew(TurtleRock, "Turtle Rock Prize"), item |-> "PendantCourage"],
      [location |-> LocationInfoNew(TurtleRock, "[TR] (1F) Center"), item |-> "RupeeGold"],
      [location |-> LocationInfoNew(TurtleRock, "[TR] (1F) Grate Chest"), item |-> "RupeeGold"],
      [location |-> LocationInfoNew(TurtleRock, "[TR] (1F) Portal Room (Northwest)"), item |-> "KeySmall"],
      [location |-> LocationInfoNew(TurtleRock, "[TR] (1F) Northeast Ledge"), item |-> "KeySmall"],
      [location |-> LocationInfoNew(TurtleRock, "[TR] (1F) Southeast Chest"), item |-> "RupeeGold"],
      [location |-> LocationInfoNew(TurtleRock, "[TR] (1F) Defeat Flamolas"), item |-> "RupeeGold"],
      [location |-> LocationInfoNew(TurtleRock, "Turtle Rock Left Balcony"), item |-> "ItemMizukaki"],
      [location |-> LocationInfoNew(TurtleRock, "[TR] (B1) Northeast Room"), item |-> "KeySmall"],
      [location |-> LocationInfoNew(TurtleRock, "[TR] (B1) Grate Chest (Small)"), item |-> "RupeeGold"],
      [location |-> LocationInfoNew(TurtleRock, "[TR] (B1) Big Chest (Center)"), item |-> "RupeeGold"],
      [location |-> LocationInfoNew(TurtleRock, "[TR] (B1) Platform"), item |-> "RupeeGold"],
      [location |-> LocationInfoNew(TurtleRock, "[TR] (B1) Big Chest (Top)"), item |-> "RupeeGold"],
      [location |-> LocationInfoNew(TurtleRock, "[TR] (1F) Under Center"), item |-> "Compass"],
      [location |-> LocationInfoNew(TurtleRock, "[TR] (B1) Under Center"), item |-> "RupeeGold"],
      [location |-> LocationInfoNew(TurtleRock, "[TR] Grinexx"), item |-> "KeyBoss"],
      [location |-> LocationInfoNew(LoruleCastle, "[LC] (1F) Ledge"), item |-> "RupeeGold"],
      [location |-> LocationInfoNew(LoruleCastle, "[LC] (1F) Center"), item |-> "RupeeGold"],
      [location |-> LocationInfoNew(LoruleCastle, "[LC] (2F) Near Torches"), item |-> "Compass"],
      [location |-> LocationInfoNew(LoruleCastle, "[LC] (2F) Hidden Path"), item |-> "KeySmall"],
      [location |-> LocationInfoNew(LoruleCastle, "[LC] (2F) Ledge"), item |-> "RupeeGold"],
      [location |-> LocationInfoNew(LoruleCastle, "[LC] (4F) Center"), item |-> "RupeeGold"],
      [location |-> LocationInfoNew(LoruleCastle, "[LC] (4F) Hidden Path"), item |-> "ItemBowLight"],
      [location |-> LocationInfoNew(LoruleCastle, "[LC] (3F) Bomb Trial (Chest)"), item |-> "RupeeGold"],
      [location |-> LocationInfoNew(LoruleCastle, "[LC] (3F) Bomb Trial (Behind Rock)"), item |-> "RupeeGold"],
      [location |-> LocationInfoNew(LoruleCastle, "[LC] (3F) Ball Trial (Chest)"), item |-> "RupeeGold"],
      [location |-> LocationInfoNew(LoruleCastle, "[LC] (3F) Ball Trial (Puzzle)"), item |-> "RupeeGold"],
      [location |-> LocationInfoNew(LoruleCastle, "[LC] (4F) Lamp Trial"), item |-> "RupeeGold"],
      [location |-> LocationInfoNew(LoruleCastle, "[LC] (4F) Hookshot Trial (Chest)"), item |-> "RupeeGold"],
      [location |-> LocationInfoNew(LoruleCastle, "[LC] (4F) Hookshot Trial (Eyes)"), item |-> "RupeeGold"],
      [location |-> LocationInfoNew(LoruleCastle, "Zelda"), item |-> "ItemBow"],
      [location |-> LocationInfoNew(FieldMain, "Delivery"), item |-> "RupeeGold"],
      [location |-> LocationInfoNew(FieldMain, "Dampe"), item |-> "RingRental"],
      [location |-> LocationInfoNew(FieldMain, "Rosso Cave"), item |-> "ItemInsectNet"],
      [location |-> LocationInfoNew(FieldMain, "Sanctuary Pegs"), item |-> "RupeeGold"],
      [location |-> LocationInfoNew(FieldMain, "Sanctuary Treasure Dungeon"), item |-> "ItemBoomerangLv2"],
      [location |-> LocationInfoNew(FieldMain, "Behind Blacksmith"), item |-> "RupeeGold"],
      [location |-> LocationInfoNew(FieldMain, "Blacksmith Cave"), item |-> "ItemSwordLv1"],
      [location |-> LocationInfoNew(FieldMain, "Blacksmith"), item |-> "ItemSwordLv1"],
      [location |-> LocationInfoNew(FieldMain, "Castle Rocks"), item |-> "RupeeGold"],
      [location |-> LocationInfoNew(FieldMain, "Rosso"), item |-> "ItemIceRod"],
      [location |-> LocationInfoNew(FieldMain, "Clean Rocks"), item |-> "RupeeGold"],
      [location |-> LocationInfoNew(FieldMain, "Irene"), item |-> "RupeeGold"],
      [location |-> LocationInfoNew(FieldMain, "Haunted Grove Tree Stump"), item |-> "RupeeGold"],
      [location |-> LocationInfoNew(FieldMain, "Cucco Dungeon"), item |-> "RupeeSilver"],
      [location |-> LocationInfoNew(FieldMain, "Rupee Rush (Hyrule)"), item |-> "RupeeGold"],
      [location |-> LocationInfoNew(FieldMain, "Castle (Indoors)"), item |-> "RupeeGold"],
      [location |-> LocationInfoNew(FieldMain, "Castle Balcony"), item |-> "RupeeGold"],
      [location |-> LocationInfoNew(FieldMain, "Sanctuary Cave"), item |-> "RupeeGold"],
      [location |-> LocationInfoNew(LostWoods, "Master Sword Pedestal"), item |-> "ItemIceRod"],
      [location |-> LocationInfoNew(LostWoods, "Alcove"), item |-> "ItemHookShot"],
      [location |-> LocationInfoNew(LostWoods, "Lost Woods Big Rock Chest"), item |-> "ItemIceRod"]>>

PlandoInit ==
    /\ layout = LayoutDefault
    /\ settings \in PatchSettings
    /\ ppc = "plando"
    /\ ppos = 1
    /\ calls = <<>>
    /\ lastSet = [l \in LayoutLocations |-> None]
    /\ lastOp = None
    /\ got = None
    /\ check_map = <<>>
    /\ pool = <<>>
    /\ pc = "idle"
    /\ step = None
    /\ outcome = None
    /\ LogicIdle
    /\ CallIdle

\* layout.set(LocationInfo::new(..), item): the next line of plando()
PlSet ==
    /\ ppc = "plando"
    /\ ppos <= Len(PlandoSets)
    /\ layout' = set(layout, PlandoSets[ppos].location, PlandoSets[ppos].item)
    /\ ppos' = ppos + 1
    /\ UNCHANGED <<ppc, calls, lastSet, lastOp, got, settings, check_map, pool, pc, step,
                   outcome, logicVars, callVars>>

\* spoiler.patch(..): regions::patch starts on the finished Layout.
PlPatch ==
    /\ ppc = "plando"
    /\ ppos > Len(PlandoSets)
    /\ ppc' = "run"
    /\ ppos' = 1
    /\ UNCHANGED <<calls, PatchRest>>

\* Of the walk of regions::patch, the step the plando Layout takes.
PlandoNext == PlSet \/ PlPatch \/ PUnreachable

SpecPlando == PlandoInit /\ [][PlandoNext]_vars

\* The locations the tables of Turtle Rock and Lost Woods declare.
DeclaredLocations == TurtleRockLocations \o TurtleBossLocations \o LostWoodsLocations

\* C29: the Layout plando() builds has an entry for every location the region
\* tables of Turtle Rock and Lost Woods declare, and regions::patch over it
\* never reaches the unreachable! of a missing entry.
C29_PlandoCoversTables ==
    (ppc \in {"run", "panic", "done", "err"}) =>
        /\ \A i \in DOMAIN DeclaredLocations :
               get(layout, LocationInfoNew(DeclaredLocations[i].subregion,
                                           DeclaredLocations[i].key)) # None
        /\ ppc # "panic"

(***************************************************************************)
(* SpecSpoiler: Spoiler::patch(paths, patch, spoiler), one action per      *)
(* statement; every `?` either goes on or returns the error.  calls is the *)
(* log of the steps entered, ret the step that failed.                     *)
(***************************************************************************)
\* regions! { dungeons(Dungeons) {..} hyrule(Hyrule) {..} lorule(Lorule) {..} }
RegionModules ==
    <<[world |-> "Dungeons", region |-> "eastern"], [world |-> "Dungeons", region |-> "house"],
      [world |-> "Dungeons", region |-> "tower"], [world |-> "Dungeons", region |-> "graveyard"],
      [world |-> "Dungeons", region |-> "dark"], [world |-> "Dungeons", region |-> "swamp"],
      [world |-> "Dungeons", region |-> "skull"], [world |-> "Dungeons", region |-> "thieves"],
      [world |-> "Dungeons", region |-> "ice"], [world |-> "Dungeons", region |-> "desert"],
      [world |-> "Dungeons", region |-> "turtle"], [world |-> "Dungeons", region |-> "castle"],
      [world |-> "Hyrule", region |-> "field"], [world |-> "Hyrule", region |-> "lost"],
      [world |-> "Hyrule", region |-> "death"], [world |-> "Hyrule", region |-> "sanctuary"],
      [world |-> "Hyrule", region |-> "kakariko"], [world |-> "Hyrule", region |-> "zoras"],
      [world |-> "Hyrule", region |-> "eastern"], [world |-> "Hyrule", region |-> "southern"],
      [world |-> "Hyrule", region |-> "lake"], [world |-> "Hyrule", region |-> "maiamai"],
      [world |-> "Lorule", region |-> "field"], [world |-> "Lorule", region |-> "skull"],
      [world |-> "Lorule", region |-> "death"], [world |-> "Lorule", region |-> "graveyard"],
      [world |-> "Lorule", region |-> "dark"], [world |-> "Lorule", region |-> "misery"],
      [world |-> "Lorule", region |-> "lake"], [world |-> "Lorule", region |-> "maiamai"]>>

\* region! patch: $start::patch first, then $id::patch in declaration order.
\* The nodes of dungeons::turtle and hyrule::lost are those of their files; of
\* every other region the walk keeps the $start node.
region_nodes(r) ==
    IF r = [world |-> "Dungeons", region |-> "turtle"] THEN <<"rock", "boss">>
    ELSE IF r = [world |-> "Hyrule", region |-> "lost"] THEN <<"woods">>
    ELSE <<"start">>

\* The subregion patch calls of regions::patch, in order.
RECURSIVE region_walk(_)
region_walk(rs) ==
    IF rs = <<>> THEN <<>>
    ELSE [i \in 1..Len(region_nodes(Head(rs))) |->
             [step |-> "patch", world |-> Head(rs).world, region |-> Head(rs).region,
              node |-> region_nodes(Head(rs))[i]]]
         \o region_walk(Tail(rs))

PatchWalk == region_walk(RegionModules)

Plain(name) == [step |-> name, world |-> "", region |-> "", node |-> ""]

\* (mutant) the spoiler is written whatever the flag.
after_dump_ignore_flag(flags) == "spoiler"

\* if spoiler { .. } Ok(())
after_dump(flags) == IF flags.spoiler THEN "spoiler" ELSE "ok"

\* if patch { patches.dump(..)?; }
after_prepare(flags) == IF flags.patch THEN "dump" ELSE after_dump(flags)

SpoilerInit ==
    /\ \E patch \in BOOLEAN, spoiler \in BOOLEAN :
           arg = Some([patch |-> patch, spoiler |-> spoiler])
    /\ ret = None
    /\ ppc = "load"
    /\ ppos = 1
    /\ calls = <<>>
    /\ LogicIdle
    /\ LayoutIdle
    /\ FillIdle

SpoilerRest == <<arg, logicVars, layoutVars, fillVars>>

\* let game = Game::load(paths.rom())?;
SLoad ==
    /\ ppc = "load"
    /\ \E ok \in BOOLEAN :
           IF ok THEN /\ calls' = Append(calls, Plain("load"))
                      /\ ppc' = "new"
                      /\ UNCHANGED <<ret, ppos, SpoilerRest>>
                 ELSE /\ ppc' = "err"
                      /\ ret' = Some([failed |-> "load"])
                      /\ UNCHANGED <<calls, ppos, SpoilerRest>>

\* let mut patcher = Patcher::new(game)?;
SNew ==
    /\ ppc = "new"
    /\ \E ok \in BOOLEAN :
           IF ok THEN /\ calls' = Append(calls, Plain("new"))
                      /\ ppc' = "regions"
                      /\ UNCHANGED <<ret, ppos, SpoilerRest>>
                 ELSE /\ ppc' = "err"
                      /\ ret' = Some([failed |-> "new"])
                      /\ UNCHANGED <<calls, ppos, SpoilerRest>>

\* $world::$region::patch(..)?, one subregion patch of it: entered, and then
\* Ok(()), the error of a Patch::apply, or the unreachable! of a missing entry.
SRegion ==
    /\ ppc = "regions"
    /\ ppos <= Len(PatchWalk)
    /\ calls' = Append(calls, PatchWalk[ppos])
    /\ \E res \in {"ok", "err", "panic"} :
           IF res = "ok" THEN /\ ppos' = ppos + 1
                              /\ UNCHANGED <<ppc, ret, SpoilerRest>>
                         ELSE /\ ppc' = res
                              /\ ret' = Some([failed |-> "patch"])
                              /\ UNCHANGED <<ppos, SpoilerRest>>

\* let patches = patcher.prepare(&self.layout, self.settings)?;
SPrepare ==
    /\ ppc = "regions"
    /\ ppos > Len(PatchWalk)
    /\ \E ok \in BOOLEAN :
           IF ok THEN /\ calls' = Append(calls, Plain("prepare"))
                      /\ ppc' = after_prepare(arg[1])
                      /\ UNCHANGED <<ret, ppos, SpoilerRest>>
                 ELSE /\ ppc' = "err"
                      /\ ret' = Some([failed |-> "prepare"])
                      /\ UNCHANGED <<calls, ppos, SpoilerRest>>

\* patches.dump(paths.output())?;
SDump ==
    /\ ppc = "dump"
    /\ \E ok \in BOOLEAN :
           IF ok THEN /\ calls' = Append(calls, Plain("dump"))
                      /\ ppc' = after_dump(arg[1])
                      /\ UNCHANGED <<ret, ppos, SpoilerRest>>
                 ELSE /\ ppc' = "err"
                      /\ ret' = Some([failed |-> "dump"])
                      /\ UNCHANGED <<calls, ppos, SpoilerRest>>

\* serde_json::to_writer_pretty(File::create(path)?, &self).expect(..): the
\* file is created or the error returned; a failed write panics.
SSpoiler ==
    /\ ppc = "spoiler"
    /\ \E res \in {"ok", "create", "write"} :
           CASE res = "ok" ->
                    /\ calls' = Append(calls, Plain("spoiler"))
                    /\ ppc' = "ok"
                    /\ UNCHANGED <<ret, ppos, SpoilerRest>>
             [] res = "create" ->
                    /\ ppc' = "err"
                    /\ ret' = Some([failed |-> "spoiler"])
                    /\ UNCHANGED <<calls, ppos, SpoilerRest>>
             [] res = "write" ->
                    /\ ppc' = "panic"
                    /\ ret' = Some([failed |-> "spoiler"])
                    /\ UNCHANGED <<calls, ppos, SpoilerRest>>

SpoilerNext == SLoad \/ SNew \/ SRegion \/ SPrepare \/ SDump \/ SSpoiler

SpecSpoiler == SpoilerInit /\ [][SpoilerNext]_vars

\* The steps of a run without a failure, for the two flags.
ExpectedSteps(flags) ==
    <<Plain("load"), Plain("new")>> \o PatchWalk \o <<Plain("prepare")>>
        \o (IF flags.patch THEN <<Plain("dump")>> ELSE <<>>)
        \o (IF flags.spoiler THEN <<Plain("spoiler")>> ELSE <<>>)

IsPrefix(a, b) == Len(a) <= Len(b) /\ a = SubSeq(b, 1, Len(a))

WorldRank(w) == CASE w = "Dungeons" -> 1 [] w = "Hyrule" -> 2 [] w = "Lorule" -> 3 [] OTHER -> 0

SpoilerRunning == ppc \in {"load", "new", "regions", "prepare", "dump", "spoiler", "ok", "err", "panic"}

\* C30: Spoiler.patch runs load, new, the region patches (dungeons, hyrule,
\* lorule; the start subregion of a region first), prepare, dump only with the
\* patch flag, the spoiler only with the spoiler flag, and stops at the first
\* failure: after a region's error no later region is patched, nothing is
\* dumped and no spoiler is written.
C30_StepOrder ==
    (SpoilerRunning /\ arg # None) =>
        /\ IsPrefix(calls, ExpectedSteps(arg[1]))
        /\ \A i, j \in DOMAIN calls :
               (i < j /\ calls[i].step = "patch" /\ calls[j].step = "patch") =>
                   /\ WorldRank(calls[i].world) <= WorldRank(calls[j].world)
                   /\ ~(calls[i].node = "boss" /\ calls[j].node = "rock")
        /\ ppc = "ok" => calls = ExpectedSteps(arg[1])
        /\ (~arg[1].patch) => \A i \in DOMAIN calls : calls[i].step # "dump"
        /\ (~arg[1].spoiler) => \A i \in DOMAIN calls : calls[i].step # "spoiler"
        /\ (ppc = "err" /\ ret = Some([failed |-> "patch"])) =>
               /\ calls # <<>>
               /\ calls[Len(calls)].step = "patch"
               /\ \A i \in DOMAIN calls : calls[i].step \notin {"prepare", "dump", "spoiler"}

\* With both flags set, the boss node of Turtle Rock returned an error after
\* the rock node and the ten regions before it were patched.
C30_Witness ==
    /\ ppc = "err"
    /\ ret = Some([failed |-> "patch"])
    /\ arg = Some([patch |-> TRUE, spoiler |-> TRUE])
    /\ Len(calls) = 14
    /\ calls[13].node = "rock"
    /\ calls[14] = [step |-> "patch", world |-> "Dungeons", region |-> "turtle", node |-> "boss"]

====
